---------------------------- MODULE Spec2Model ----------------------------
(***************************************************************************)
(* Model of the resolution engine of geo-cities: the persistent dual cache *)
(* SQLiteCacheWithDistances (place name -> coordinates, pair of names ->   *)
(* distance/duration) of src/app_completo_sqlite.py, and the cache-first   *)
(* resolvers of ParallelProcessor built on it.                             *)
(*                                                                         *)
(* Text is a sequence of one-character strings.  A naive local time is a   *)
(* number of ticks; TicksPerDay ticks make a calendar day.  A distance in  *)
(* km is held as the integer km*1000 and a duration in minutes as the      *)
(* integer min*60, so both are exact.                                      *)
(***************************************************************************)
EXTENDS Integers, Sequences, FiniteSets, TLC

VARIABLES
    coordinates,   \* table coordinates: city_hash -> row
    distances,     \* table distances: route_hash -> row
    cache_stats,   \* table cache_stats: date -> row of six counters
    now,           \* the local wall clock, datetime.now()
    utc_ahead,     \* ticks by which UTC is ahead of the local clock
    last,          \* the last cache call and what it returned
    get_calls,     \* Get calls per kind since the last clear_cache
    geo,           \* the frame of get_coordinates_with_cache
    calc,          \* the frame of calculate_distance_with_retry
    linhas,        \* linhas_processaveis, the batch handed to the processor
    jobs,          \* one frame of process_linha_paralela per line of the batch
    batch,         \* the frame of process_all_lines_parallel
    race,          \* the frame of a get_coordinates run statement by statement
    coordinates_rows, \* the rows of table coordinates, one by one
    threads,       \* one frame per worker thread calling the cache
    analyzer,      \* the frame of analyze_spreadsheet_advanced
    sqlite_cache,  \* table coordinates of an SQLiteCache and its last return
    pool,          \* the processor's max_workers and the resolver calls made per task
    worker         \* one thread of a distance pool, task after task

storeVars == <<coordinates, distances, cache_stats, now, utc_ahead, last, get_calls>>

engineVars == <<linhas, jobs, batch>>

lateVars == <<sqlite_cache, pool, worker>>

auxVars == <<coordinates_rows, threads, analyzer, sqlite_cache, pool, worker>>

vars == <<coordinates, distances, cache_stats, now, utc_ahead, last, get_calls, geo, calc,
          linhas, jobs, batch, race, coordinates_rows, threads, analyzer,
          sqlite_cache, pool, worker>>

----------------------------------------------------------------------------
(* Bounds of the model.                                                    *)

TicksPerDay == 3
MaxTime == 3
MaxOps == 2
TtlTicks == 1
DistanceTtlTicks == 2
MaxUtcAhead == 1
MaxCalls == 2

----------------------------------------------------------------------------
(* Text: str.upper, str.strip and the order of str.                        *)

Whitespace == {" "}

\* Code points of the characters the model uses.
Ord(c) ==
    CASE c = " " -> 32
      [] c = "B" -> 66
      [] c = "F" -> 70
      [] c = "H" -> 72
      [] c = "J" -> 74
      [] c = "P" -> 80
      [] c = "R" -> 82
      [] c = "S" -> 83
      [] c = "T" -> 84
      [] c = "b" -> 98
      [] c = "f" -> 102
      [] c = "h" -> 104
      [] c = "j" -> 106
      [] c = "|" -> 124

UpperChar(c) ==
    CASE c = "a" -> "A"
      [] c = "b" -> "B"
      [] c = "f" -> "F"
      [] c = "h" -> "H"
      [] c = "j" -> "J"
      [] c = "n" -> "N"
      [] OTHER -> c

upper(s) == [i \in 1..Len(s) |-> UpperChar(s[i])]

RECURSIVE lstrip(_)
lstrip(s) ==
    IF s # <<>> /\ Head(s) \in Whitespace THEN lstrip(Tail(s)) ELSE s

RECURSIVE rstrip(_)
rstrip(s) ==
    IF s # <<>> /\ s[Len(s)] \in Whitespace
    THEN rstrip(SubSeq(s, 1, Len(s) - 1))
    ELSE s

strip(s) == rstrip(lstrip(s))

\* s < t on Python str: the first differing code point decides, a proper
\* prefix is smaller.
RECURSIVE StrLess(_, _)
StrLess(s, t) ==
    IF t = <<>> THEN FALSE
    ELSE IF s = <<>> THEN TRUE
    ELSE IF Ord(Head(s)) # Ord(Head(t)) THEN Ord(Head(s)) < Ord(Head(t))
    ELSE StrLess(Tail(s), Tail(t))

\* hashlib digests: injective on the text hashed, tagged by the algorithm.
md5(s) == <<"md5", s>>
sha256(s) == <<"sha256", s>>

----------------------------------------------------------------------------
(* Timestamps as text.                                                     *)

\* datetime.isoformat(): "YYYY-MM-DDTHH:MM:SS.ffffff".
isoformat(t) ==
    [date |-> t \div TicksPerDay, sep |-> "T", time |-> t % TicksPerDay]

\* datetime.fromisoformat().
fromisoformat(ts) == ts.date * TicksPerDay + ts.time

\* SQLite's CURRENT_TIMESTAMP: "YYYY-MM-DD HH:MM:SS", in UTC.
CURRENT_TIMESTAMP(t, ahead) ==
    [date |-> (t + ahead) \div TicksPerDay, sep |-> " ",
     time |-> (t + ahead) % TicksPerDay]

\* SQLite compares two TEXT values byte by byte: the date, then the
\* separator (" " is below "T"), then the time of day.
TextLess(x, y) ==
    \/ x.date < y.date
    \/ x.date = y.date /\ Ord(x.sep) < Ord(y.sep)
    \/ x.date = y.date /\ x.sep = y.sep /\ x.time < y.time

\* datetime.now().date()
today(t) == t \div TicksPerDay

----------------------------------------------------------------------------
(* Rounding.                                                               *)

\* Python's round() of the non-negative value n/scale to a multiple of
\* unit/scale, the result again scaled: to nearest, a tie to the even one.
PyRound(n, unit) ==
    LET q == n \div unit
        r == n % unit
    IN  IF 2 * r < unit THEN q * unit
        ELSE IF 2 * r > unit THEN (q + 1) * unit
        ELSE IF q % 2 = 0 THEN q * unit ELSE (q + 1) * unit

\* round(x, 2) of a value in km (held as km*1000).
RoundKm(v) == PyRound(v, 10)

\* round(x, 0) of a value in minutes (held as min*60).
RoundMin(v) == PyRound(v, 60)

----------------------------------------------------------------------------
(* Inputs.                                                                 *)

BH == <<"B", "H">>
bh_sp == <<"b", "h", " ">>
JF == <<"J", "F">>

CityNames == {BH, bh_sp, JF}

\* <<origin_city, destination_city>>: a pair, the same pair the other way
\* round, and the pair with one name in lower case and untrimmed.
RoutePairs == {<<BH, JF>>, <<JF, BH>>, <<bh_sp, JF>>}

\* [longitude, latitude]
CoordValues == {<<-44, -20>>, <<-43, -22>>}

\* float('inf'), a value beyond every coordinate.
Inf == 180 * 180

\* What a caller may hand to save_coordinates as coordinates: the pairs
\* above, an empty list, a list of one, a list of three, and pairs with a
\* non-finite number.
CoordInputs ==
    CoordValues \cup {<<>>, <<-44>>, <<-44, -20, 7>>, <<Inf, -20>>, <<-43, Inf>>}

\* <<distance_km * 1000, duration_minutes * 60>>
RouteValues == {<<250500, 10800>>, <<12346, 930>>}

----------------------------------------------------------------------------
(* SQLiteCacheWithDistances.                                               *)

\* The key save_coordinates and get_coordinates compute inline.
city_hash(city_name) == md5(upper(city_name))

\* A variant that keeps the order of the two names.
_get_route_hash_ordered(origin_city, destination_city) ==
    sha256(strip(upper(origin_city)) \o <<"|">> \o strip(upper(destination_city)))

\* A variant that does not trim the two names.
_get_route_hash_untrimmed(origin_city, destination_city) ==
    LET origin_norm == upper(origin_city)
        dest_norm == upper(destination_city)
    IN  sha256(IF StrLess(origin_norm, dest_norm)
               THEN origin_norm \o <<"|">> \o dest_norm
               ELSE dest_norm \o <<"|">> \o origin_norm)

_get_route_hash(origin_city, destination_city) ==
    LET origin_norm == strip(upper(origin_city))
        dest_norm == strip(upper(destination_city))
        route_string ==
            IF StrLess(origin_norm, dest_norm)
            THEN origin_norm \o <<"|">> \o dest_norm
            ELSE dest_norm \o <<"|">> \o origin_norm
    IN  sha256(route_string)

ZeroStats ==
    [coord_hits |-> 0, coord_misses |-> 0, coord_saves |-> 0,
     distance_hits |-> 0, distance_misses |-> 0, distance_saves |-> 0]

\* A variant that updates the row of today only when it is there already.
_update_stats_no_insert(stats, action, t) ==
    IF today(t) \in DOMAIN stats
    THEN [stats EXCEPT ![today(t)][action] = @ + 1]
    ELSE stats

\* cache_stats after _update_stats(action) at local time t.
_update_stats(stats, action, t) ==
    LET row == IF today(t) \in DOMAIN stats THEN stats[today(t)] ELSE ZeroStats
    IN  (today(t) :> [row EXCEPT ![action] = @ + 1]) @@ stats

\* INSERT OR REPLACE: the row of the key is replaced whole, hits is back at
\* its default.
InsertOrReplace(table, key, row) == (key :> row) @@ table

\* A variant whose update is lost.
BumpHitsLost(table, key) == table

\* UPDATE ... SET hits = hits + 1 WHERE <key>
BumpHits(table, key) == [table EXCEPT ![key].hits = @ + 1]

DeleteRow(table, key) == [k \in DOMAIN table \ {key} |-> table[k]]

\* A variant that takes an entry for expired at its expires_at already.
IsExpiredInclusive(row, t) == t >= fromisoformat(row.expires_at)

\* The expiry test of get_coordinates and get_distance.
IsExpired(row, t) == t > fromisoformat(row.expires_at)

\* WHERE expires_at > CURRENT_TIMESTAMP
SqlLive(row, t, ahead) == TextLess(CURRENT_TIMESTAMP(t, ahead), row.expires_at)

\* WHERE expires_at <= CURRENT_TIMESTAMP
SqlExpired(row, t, ahead) == ~TextLess(CURRENT_TIMESTAMP(t, ahead), row.expires_at)

NoValue == <<>>

Call(op, a, b, found, value, status) ==
    [op |-> op, a |-> a, b |-> b, found |-> found, value |-> value,
     status |-> status, removed |-> 0, total_entries |-> 0, counters |-> ZeroStats]

\* Operations since the last clear_cache, over every day's row.
RECURSIVE SumRows(_, _)
SumRows(stats, field) ==
    IF DOMAIN stats = {} THEN 0
    ELSE LET d == CHOOSE x \in DOMAIN stats : TRUE
         IN  stats[d][field] + SumRows([k \in DOMAIN stats \ {d} |-> stats[k]], field)

StatFields ==
    {"coord_hits", "coord_misses", "coord_saves",
     "distance_hits", "distance_misses", "distance_saves"}

RECURSIVE SumFields(_, _)
SumFields(stats, fields) ==
    IF fields = {} THEN 0
    ELSE LET f == CHOOSE x \in fields : TRUE
         IN  SumRows(stats, f) + SumFields(stats, fields \ {f})

OpsDone == SumFields(cache_stats, StatFields)

----------------------------------------------------------------------------
(* The operations of SQLiteCacheWithDistances, each on the store alone.    *)

\* coordinates[0] and coordinates[1] are read while the parameters of the
\* INSERT are built: a list shorter than two raises IndexError before any
\* statement runs; whatever follows the second element is not looked at.
save_coordinates(city_name, coords) ==
    IF Len(coords) < 2
    THEN /\ last' = Call("save_coordinates", city_name, <<>>, FALSE, coords, "IndexError")
         /\ UNCHANGED <<coordinates, distances, cache_stats, now, utc_ahead, get_calls>>
    ELSE
    LET row == [city_name |-> city_name, longitude |-> coords[1],
                latitude |-> coords[2],
                expires_at |-> isoformat(now + TtlTicks), hits |-> 0]
    IN  /\ coordinates' = InsertOrReplace(coordinates, city_hash(city_name), row)
        /\ cache_stats' = _update_stats(cache_stats, "coord_saves", now)
        /\ last' = Call("save_coordinates", city_name, <<>>, FALSE, coords, "saved")
        /\ UNCHANGED <<distances, now, utc_ahead, get_calls>>

get_coordinates(city_name) ==
    LET key == city_hash(city_name)
    IN  /\ IF key \notin DOMAIN coordinates
           THEN /\ coordinates' = coordinates
                /\ cache_stats' = _update_stats(cache_stats, "coord_misses", now)
                /\ last' = Call("get_coordinates", city_name, <<>>, FALSE, NoValue, "miss")
           ELSE IF IsExpired(coordinates[key], now)
           THEN /\ coordinates' = DeleteRow(coordinates, key)
                /\ cache_stats' = _update_stats(cache_stats, "coord_misses", now)
                /\ last' = Call("get_coordinates", city_name, <<>>, FALSE, NoValue, "expired")
           ELSE /\ coordinates' = BumpHits(coordinates, key)
                /\ cache_stats' = _update_stats(cache_stats, "coord_hits", now)
                /\ last' = Call("get_coordinates", city_name, <<>>, TRUE,
                                <<coordinates[key].longitude, coordinates[key].latitude>>,
                                "hit")
        /\ get_calls' = [get_calls EXCEPT !.coord = @ + 1]
        /\ UNCHANGED <<distances, now, utc_ahead>>

save_distance(origin_city, destination_city, distance_km, duration_minutes) ==
    LET row == [origin_city |-> origin_city, destination_city |-> destination_city,
                distance_km |-> distance_km, duration_minutes |-> duration_minutes,
                expires_at |-> isoformat(now + DistanceTtlTicks), hits |-> 0]
    IN  /\ distances' = InsertOrReplace(distances,
                            _get_route_hash(origin_city, destination_city), row)
        /\ cache_stats' = _update_stats(cache_stats, "distance_saves", now)
        /\ last' = Call("save_distance", origin_city, destination_city, FALSE,
                        <<distance_km, duration_minutes>>, "saved")
        /\ UNCHANGED <<coordinates, now, utc_ahead, get_calls>>

get_distance(origin_city, destination_city) ==
    LET key == _get_route_hash(origin_city, destination_city)
    IN  /\ IF key \notin DOMAIN distances
           THEN /\ distances' = distances
                /\ cache_stats' = _update_stats(cache_stats, "distance_misses", now)
                /\ last' = Call("get_distance", origin_city, destination_city, FALSE,
                                NoValue, "miss")
           ELSE IF IsExpired(distances[key], now)
           THEN /\ distances' = DeleteRow(distances, key)
                /\ cache_stats' = _update_stats(cache_stats, "distance_misses", now)
                /\ last' = Call("get_distance", origin_city, destination_city, FALSE,
                                NoValue, "expired")
           ELSE /\ distances' = BumpHits(distances, key)
                /\ cache_stats' = _update_stats(cache_stats, "distance_hits", now)
                /\ last' = Call("get_distance", origin_city, destination_city, TRUE,
                                <<RoundKm(distances[key].distance_km),
                                  RoundMin(distances[key].duration_minutes)>>,
                                "cache_hit")
        /\ get_calls' = [get_calls EXCEPT !.distance = @ + 1]
        /\ UNCHANGED <<coordinates, now, utc_ahead>>

\* The counts get_cache_stats reads from the store.
total_coordinates ==
    Cardinality({k \in DOMAIN coordinates : SqlLive(coordinates[k], now, utc_ahead)})

total_distances ==
    Cardinality({k \in DOMAIN distances : SqlLive(distances[k], now, utc_ahead)})

\* round(hits / requests * 100, 2) if requests > 0 else 0, held as
\* hundredths of a percent.
HitRate(hits, requests) ==
    IF requests > 0 THEN PyRound(hits * 10000, requests) \div requests ELSE 0

\* A variant that purges the expired entries while it counts.
get_cache_stats_purges ==
    /\ coordinates' = [k \in {x \in DOMAIN coordinates : ~IsExpired(coordinates[x], now)}
                         |-> coordinates[k]]
    /\ distances' = [k \in {x \in DOMAIN distances : ~IsExpired(distances[x], now)}
                       |-> distances[k]]
    /\ last' = [Call("get_cache_stats", <<>>, <<>>, FALSE, NoValue, "stats") EXCEPT
                   !.total_entries = total_coordinates + total_distances]
    /\ UNCHANGED <<cache_stats, now, utc_ahead, get_calls>>

\* The report's value is <<coord_hit_rate, distance_hit_rate, total_hits,
\* total_requests, hit_rate>>.
get_cache_stats ==
    LET row == IF today(now) \in DOMAIN cache_stats
               THEN cache_stats[today(now)] ELSE ZeroStats
        total_coord_requests == row.coord_hits + row.coord_misses
        total_distance_requests == row.distance_hits + row.distance_misses
        total_hits == row.coord_hits + row.distance_hits
        total_requests == total_coord_requests + total_distance_requests
    IN
    /\ last' = [Call("get_cache_stats", <<>>, <<>>, FALSE,
                     <<HitRate(row.coord_hits, total_coord_requests),
                       HitRate(row.distance_hits, total_distance_requests),
                       total_hits, total_requests,
                       HitRate(total_hits, total_requests)>>, "stats") EXCEPT
                   !.total_entries = total_coordinates + total_distances,
                   !.counters = row]
    /\ UNCHANGED <<coordinates, distances, cache_stats, now, utc_ahead, get_calls>>

cleanup_expired ==
    LET expired_coords ==
            {k \in DOMAIN coordinates : SqlExpired(coordinates[k], now, utc_ahead)}
        expired_distances ==
            {k \in DOMAIN distances : SqlExpired(distances[k], now, utc_ahead)}
    IN  /\ coordinates' = [k \in DOMAIN coordinates \ expired_coords |-> coordinates[k]]
        /\ distances' = [k \in DOMAIN distances \ expired_distances |-> distances[k]]
        /\ last' = [Call("cleanup_expired", <<>>, <<>>, FALSE, NoValue, "cleaned") EXCEPT
                       !.removed = Cardinality(expired_coords)
                                   + Cardinality(expired_distances)]
        /\ UNCHANGED <<cache_stats, now, utc_ahead, get_calls>>

\* A variant that leaves the counters in place.
clear_cache_keeps_stats ==
    /\ coordinates' = <<>>
    /\ distances' = <<>>
    /\ get_calls' = [coord |-> 0, distance |-> 0]
    /\ last' = Call("clear_cache", <<>>, <<>>, FALSE, NoValue, "cleared")
    /\ UNCHANGED <<cache_stats, now, utc_ahead>>

clear_cache ==
    /\ coordinates' = <<>>
    /\ distances' = <<>>
    /\ cache_stats' = <<>>
    /\ get_calls' = [coord |-> 0, distance |-> 0]
    /\ last' = Call("clear_cache", <<>>, <<>>, FALSE, NoValue, "cleared")
    /\ UNCHANGED <<now, utc_ahead>>

----------------------------------------------------------------------------
(* The store under any sequence of calls.                                  *)

IdleGeo ==
    [pc |-> "idle", city_name |-> <<>>, hit |-> FALSE, queries |-> <<>>,
     answers |-> <<>>, saves |-> 0, ret |-> NoValue]

IdleCalc ==
    [pc |-> "idle", origin_city |-> <<>>, destination_city |-> <<>>,
     hit |-> FALSE, attempt |-> 0, calls |-> 0, failures |-> <<>>,
     sleeps |-> <<>>, saves |-> 0, route |-> NoValue, result |-> NoValue]

\* process_all_lines_parallel before it is called.  concluidas keeps the
\* line numbers in the order the jobs finished.
IdleBatch ==
    [pc |-> "idle", resultados |-> <<>>, concluidas |-> <<>>, todos_erros |-> <<>>,
     total_sucessos |-> 0, total_erros |-> 0]

\* What fetchone() leaves in row when there is no row.
NoRow ==
    [city_name |-> <<>>, longitude |-> 0, latitude |-> 0,
     expires_at |-> isoformat(0), hits |-> 0]

\* get_coordinates before it is called.
IdleRace ==
    [pc |-> "idle", city_name |-> <<>>, at |-> 0, found |-> FALSE, row |-> NoRow,
     ret |-> NoValue]

\* The worker threads that call the cache.
Threads == {1, 2}

\* A thread between two calls.  at is the time of the call's SELECT, ret
\* what the call under way returns, saved the values the thread has handed
\* to save_coordinates, hits, misses and saves the calls it has made of each
\* outcome.
IdleThread ==
    [pc |-> "idle", city_name |-> <<>>, at |-> 0, found |-> FALSE, row |-> NoRow,
     action |-> "", seen |-> FALSE, ret |-> NoValue, saved |-> {},
     hits |-> 0, misses |-> 0, saves |-> 0]

\* analyze_spreadsheet_advanced before it is called.
IdleAnalyzer ==
    [pc |-> "idle", df |-> <<>>, idx |-> 0, linhas_processaveis |-> <<>>,
     destinos_ignorados |-> 0, total_calculos |-> 0]

\* An SQLiteCache after __init__: table coordinates empty, nothing returned.
NovoSQLiteCache == [coordinates |-> <<>>, ret |-> FALSE, called |-> FALSE]

\* The processor before __init__ has set max_workers.  origin, geocoder and
\* routing count, for the tasks under way, the geocoder calls made for a
\* job's origin and for a destination and the routing requests made for a
\* destination; peak keeps the most made for any task so far.
IdlePool ==
    [max_workers |-> 0, origin |-> <<>>, geocoder |-> <<>>, routing |-> <<>>,
     peak |-> [origin |-> 0, geocoder |-> 0, routing |-> 0]]

\* A thread of the distance pool before its first task.  events lists the
\* routing requests it has sent and the sleeps it has made, in order.
IdleWorker ==
    [pc |-> "idle", tasks |-> <<>>, attempt |-> 0, events |-> <<>>]

\* A fresh store and no call under way.
InitCache ==
    /\ coordinates = <<>>
    /\ distances = <<>>
    /\ cache_stats = <<>>
    /\ now = 0
    /\ utc_ahead \in 0..MaxUtcAhead
    /\ last = Call("init", <<>>, <<>>, FALSE, NoValue, "init")
    /\ get_calls = [coord |-> 0, distance |-> 0]
    /\ geo = IdleGeo
    /\ calc = IdleCalc
    /\ jobs = <<>>
    /\ batch = IdleBatch
    /\ race = IdleRace
    /\ coordinates_rows = <<>>
    /\ threads = [t \in Threads |-> IdleThread]
    /\ sqlite_cache = NovoSQLiteCache
    /\ pool = IdlePool
    /\ worker = IdleWorker

Init == InitCache /\ linhas = <<>> /\ analyzer = IdleAnalyzer

\* The resolvers never read the store's UTC clock.
InitResolvers == Init /\ utc_ahead = 0

SaveCoordinates ==
    /\ OpsDone < MaxOps
    /\ \E n \in CityNames, c \in CoordValues : save_coordinates(n, c)
    /\ UNCHANGED <<geo, calc, engineVars, race, auxVars>>

GetCoordinates ==
    /\ OpsDone < MaxOps
    /\ \E n \in CityNames : get_coordinates(n)
    /\ UNCHANGED <<geo, calc, engineVars, race, auxVars>>

SaveDistance ==
    /\ OpsDone < MaxOps
    /\ \E p \in RoutePairs, r \in RouteValues : save_distance(p[1], p[2], r[1], r[2])
    /\ UNCHANGED <<geo, calc, engineVars, race, auxVars>>

GetDistance ==
    /\ OpsDone < MaxOps
    /\ \E p \in RoutePairs : get_distance(p[1], p[2])
    /\ UNCHANGED <<geo, calc, engineVars, race, auxVars>>

GetCacheStats == get_cache_stats /\ UNCHANGED <<geo, calc, engineVars, race, auxVars>>

CleanupExpired == cleanup_expired /\ UNCHANGED <<geo, calc, engineVars, race, auxVars>>

ClearCache == clear_cache /\ UNCHANGED <<geo, calc, engineVars, race, auxVars>>

\* Time passes.
Tick ==
    /\ now < MaxTime
    /\ now' = now + 1
    /\ last' = Call("tick", <<>>, <<>>, FALSE, NoValue, "tick")
    /\ UNCHANGED <<coordinates, distances, cache_stats, utc_ahead, get_calls, geo, calc,
                 engineVars, race, auxVars>>

Next ==
    \/ SaveCoordinates
    \/ GetCoordinates
    \/ SaveDistance
    \/ GetDistance
    \/ GetCacheStats
    \/ CleanupExpired
    \/ ClearCache
    \/ Tick

Spec == Init /\ [][Next]_vars

----------------------------------------------------------------------------
(* save_coordinates called with whatever a caller may pass.                *)

SaveAnyCoordinates ==
    /\ OpsDone < MaxOps
    /\ \E n \in CityNames, c \in CoordInputs : save_coordinates(n, c)
    /\ UNCHANGED <<geo, calc, engineVars, race, auxVars>>

NextValidate ==
    \/ SaveAnyCoordinates
    \/ GetCoordinates
    \/ Tick

SpecValidate == InitResolvers /\ [][NextValidate]_vars

----------------------------------------------------------------------------
(* ParallelProcessor.get_coordinates_with_cache, one geocoder call a step. *)

\* A variant that asks for the country first.
GeocodeQueriesSwapped(city_name) ==
    <<[city_name |-> city_name, region |-> "Brasil"],
      [city_name |-> city_name, region |-> "MG, Brasil"]>>

\* The queries f"{city_name}, MG, Brasil" and f"{city_name}, Brasil".
GeocodeQueries(city_name) ==
    <<[city_name |-> city_name, region |-> "MG, Brasil"],
      [city_name |-> city_name, region |-> "Brasil"]>>

\* What the geocoder may answer: a location, None, or an exception.
GeocoderAnswers ==
    {[kind |-> "location", coords |-> c] : c \in CoordValues}
    \cup {[kind |-> "none", coords |-> NoValue], [kind |-> "raise", coords |-> NoValue]}

\* The call: the cache is asked first.
GeoCall ==
    /\ geo.pc \in {"idle", "done"}
    /\ get_calls.coord < MaxCalls
    /\ \E n \in CityNames :
          /\ get_coordinates(n)
          /\ geo' = IF last'.found
                    THEN [IdleGeo EXCEPT !.pc = "done", !.city_name = n,
                                         !.hit = TRUE, !.ret = last'.value]
                    ELSE [IdleGeo EXCEPT !.pc = "geocode_mg", !.city_name = n]
    /\ UNCHANGED <<calc, engineVars, race, auxVars>>

\* The frame after query number i got the answer ans, next being the step
\* after an empty answer.
Geocoded(i, ans, next) ==
    LET asked == [geo EXCEPT !.queries = Append(@, GeocodeQueries(geo.city_name)[i]),
                             !.answers = Append(@, ans.kind)]
    IN  CASE ans.kind = "location" ->
               [asked EXCEPT !.pc = "done", !.saves = @ + 1, !.ret = ans.coords]
          [] ans.kind = "none" ->
               [asked EXCEPT !.pc = next, !.ret = NoValue]
          [] ans.kind = "raise" ->
               [asked EXCEPT !.pc = "done", !.ret = NoValue]

GeocodeStep(i, next) ==
    \E ans \in GeocoderAnswers :
      /\ geo' = Geocoded(i, ans, next)
      /\ IF ans.kind = "location"
         THEN save_coordinates(geo.city_name, ans.coords)
         ELSE UNCHANGED storeVars
      /\ UNCHANGED <<calc, engineVars, race, auxVars>>

GeocodeMG == geo.pc = "geocode_mg" /\ GeocodeStep(1, "geocode_br")

GeocodeBR == geo.pc = "geocode_br" /\ GeocodeStep(2, "done")

NextGeo ==
    \/ GeoCall
    \/ GeocodeMG
    \/ GeocodeBR
    \/ Tick

SpecGeo == InitResolvers /\ [][NextGeo]_vars

----------------------------------------------------------------------------
(* ParallelProcessor.calculate_distance_with_retry, one request or one     *)
(* sleep a step.                                                           *)

max_retries == 3

RECURSIVE Pow2(_)
Pow2(n) == IF n = 0 THEN 1 ELSE 2 * Pow2(n - 1)

\* A variant whose delays shrink.
BackoffDelayShrinking(attempt) == Pow2(max_retries - attempt)

\* time.sleep(2 ** attempt)
BackoffDelay(attempt) == Pow2(attempt)

\* A variant that never sleeps between attempts.
SleepsAfterNever(attempt) == attempt < 0

\* A variant that sleeps after the last attempt as well.
SleepsAfterAlways(attempt) == attempt >= 0

\* if attempt < max_retries - 1: the failed attempt is followed by a sleep.
SleepsAfter(attempt) == attempt < max_retries - 1

\* What the routing service may do: a route (metres, seconds), an exception,
\* a status other than 200, or a 200 without routes.
RouteFailures == {"exception", "bad_status", "no_routes"}

\* The dict returned when every attempt failed.
ErroCalculo(origin_city, destination_city) ==
    [status |-> "erro_calculo", value |-> NoValue,
     erro_detalhes |-> [message |-> "Falha ao calcular rota",
                        origin_city |-> origin_city,
                        destination_city |-> destination_city]]

NoDetails == [message |-> "", origin_city |-> <<>>, destination_city |-> <<>>]

\* for attempt in range(max_retries): the next iteration, or the end of the loop.
LoopAdvance(c) ==
    IF c.attempt + 1 < max_retries
    THEN [c EXCEPT !.pc = "request", !.attempt = @ + 1]
    ELSE [c EXCEPT !.pc = "done", !.attempt = @ + 1,
                   !.result = ErroCalculo(c.origin_city, c.destination_city)]

\* The call: the distance cache is asked first.
CalcCall ==
    /\ calc.pc \in {"idle", "done"}
    /\ get_calls.distance < MaxCalls
    /\ \E p \in RoutePairs :
          /\ get_distance(p[1], p[2])
          /\ calc' = IF last'.found
                     THEN [IdleCalc EXCEPT !.pc = "done", !.origin_city = p[1],
                                          !.destination_city = p[2], !.hit = TRUE,
                                          !.result = [status |-> last'.status,
                                                      value |-> last'.value,
                                                      erro_detalhes |-> NoDetails]]
                     ELSE [IdleCalc EXCEPT !.pc = "request", !.origin_city = p[1],
                                          !.destination_city = p[2]]
    /\ UNCHANGED <<geo, engineVars, race, auxVars>>

\* A variant that returns the route's values as the service gave them.
FreshResultUnrounded(r) ==
    [status |-> "sucesso", value |-> <<r[1], r[2]>>, erro_detalhes |-> NoDetails]

\* The dict built from the route of a 200 answer: round(distance_km, 2),
\* round(duration_min, 0).
FreshResult(r) ==
    [status |-> "sucesso", value |-> <<RoundKm(r[1]), RoundMin(r[2])>>,
     erro_detalhes |-> NoDetails]

\* requests.get answers 200 with a route: the result is built, the distance
\* saved, the call returns.
RequestOk ==
    /\ calc.pc = "request"
    /\ \E r \in RouteValues :
          /\ save_distance(calc.origin_city, calc.destination_city, r[1], r[2])
          /\ calc' = [calc EXCEPT !.pc = "done", !.calls = @ + 1, !.saves = @ + 1,
                                  !.route = r,
                                  !.result = FreshResult(r)]
    /\ UNCHANGED <<geo, engineVars, race, auxVars>>

\* The attempt fails: a sleep follows unless it was the last attempt.
RequestFails ==
    /\ calc.pc = "request"
    /\ \E f \in RouteFailures :
          LET failed == [calc EXCEPT !.calls = @ + 1, !.failures = Append(@, f)]
          IN  calc' = IF SleepsAfter(calc.attempt)
                      THEN [failed EXCEPT !.pc = "backoff"]
                      ELSE LoopAdvance(failed)
    /\ UNCHANGED <<storeVars, geo, engineVars, race, auxVars>>

Backoff ==
    /\ calc.pc = "backoff"
    /\ calc' = LoopAdvance([calc EXCEPT !.sleeps = Append(@, BackoffDelay(calc.attempt))])
    /\ UNCHANGED <<storeVars, geo, engineVars, race, auxVars>>

NextCalc ==
    \/ CalcCall
    \/ RequestOk
    \/ RequestFails
    \/ Backoff
    \/ Tick

SpecCalc == InitResolvers /\ [][NextCalc]_vars

----------------------------------------------------------------------------
(* calculate_distance_with_retry over a store whose access may fail: the   *)
(* cache methods catch nothing, so a failing sqlite3 call raises from      *)
(* get_distance or save_distance.                                          *)

\* self.cache.get_distance(...) raises.  The call stands before the try of
\* the retry loop, so the exception leaves calculate_distance_with_retry.
CalcCallRaises ==
    /\ calc.pc \in {"idle", "done"}
    /\ get_calls.distance < MaxCalls
    /\ \E p \in RoutePairs :
          /\ last' = Call("get_distance", p[1], p[2], FALSE, NoValue, "raised")
          /\ calc' = [IdleCalc EXCEPT !.pc = "raised", !.origin_city = p[1],
                                     !.destination_city = p[2]]
    /\ get_calls' = [get_calls EXCEPT !.distance = @ + 1]
    /\ UNCHANGED <<coordinates, distances, cache_stats, now, utc_ahead, geo,
                 engineVars, race, auxVars>>

\* requests.get answers 200 with a route and self.cache.save_distance(...)
\* raises, before its INSERT or after it in _update_stats.  The call stands
\* inside the try: except Exception takes it for a failed attempt.
RequestOkSaveRaises ==
    /\ calc.pc = "request"
    /\ \E r \in RouteValues, stored \in BOOLEAN :
          LET failed == [calc EXCEPT !.calls = @ + 1, !.route = r,
                                     !.failures = Append(@, "save_raised")]
              row == [origin_city |-> calc.origin_city,
                      destination_city |-> calc.destination_city,
                      distance_km |-> r[1], duration_minutes |-> r[2],
                      expires_at |-> isoformat(now + DistanceTtlTicks), hits |-> 0]
          IN  /\ calc' = IF SleepsAfter(calc.attempt)
                         THEN [failed EXCEPT !.pc = "backoff"]
                         ELSE LoopAdvance(failed)
              /\ distances' = IF stored
                              THEN InsertOrReplace(distances,
                                       _get_route_hash(calc.origin_city,
                                                       calc.destination_city), row)
                              ELSE distances
              /\ last' = Call("save_distance", calc.origin_city, calc.destination_city,
                              FALSE, <<r[1], r[2]>>, "raised")
    /\ UNCHANGED <<coordinates, cache_stats, now, utc_ahead, get_calls, geo,
                 engineVars, race, auxVars>>

NextCalcIO ==
    \/ CalcCall
    \/ CalcCallRaises
    \/ RequestOk
    \/ RequestOkSaveRaises
    \/ RequestFails
    \/ Backoff
    \/ Tick

SpecCalcIO == InitResolvers /\ [][NextCalcIO]_vars

----------------------------------------------------------------------------
(* ParallelProcessor.process_linha_paralela and process_all_lines_parallel. *)
(* Every worker of a pool is a thread of its own: one step is one call of  *)
(* the cache, or the geocoder's or the routing loop's outcome together     *)
(* with the save that follows it, or the collection of a finished future   *)
(* by the as_completed loop, which happens in the step that finishes it.   *)

SP == <<"S", "P">>
RJ == <<"R", "J">>

\* One entry of linhas_processaveis.
Linha(linha_excel, origem, destinos) ==
    [linha_excel |-> linha_excel, origem |-> origem, destinos |-> destinos]

\* The batches the processor is given.
Batches ==
    { <<>>,
      <<Linha(1, BH, <<JF, SP, RJ>>)>>,
      <<Linha(2, BH, <<JF>>), Linha(3, JF, <<BH, SP>>)>>,
      <<Linha(1, BH, <<>>)>> }

\* The place the geocoder finds for a name, when it finds one.
Located(city_name) == IF city_name = BH THEN <<-44, -20>> ELSE <<-43, -22>>

\* What the two geocoder queries of one call come to: the first location
\* found, or none (both empty, or an exception, which is caught).
GeocodeOutcomes(city_name) ==
    {[kind |-> "location", coords |-> Located(city_name)],
     [kind |-> "none", coords |-> NoValue],
     [kind |-> "raise", coords |-> NoValue]}

NoErro == [tipo |-> "", origem |-> <<>>, destino |-> <<>>, erro |-> ""]

\* The entry of erros_detalhados for an origin without coordinates.
ErroOrigem(origem) ==
    [tipo |-> "geocoding_origem", origem |-> origem, destino |-> <<"N", "/", "A">>,
     erro |-> "Coordenadas da origem nao encontradas"]

\* A variant that files the destination's failure as the origin's.
ErroDestinoAsOrigem(origem, destino) == ErroOrigem(origem)

\* The entry of erros_detalhados for a destination without coordinates.
ErroDestino(origem, destino) ==
    [tipo |-> "geocoding_destino", origem |-> origem, destino |-> destino,
     erro |-> "Coordenadas do destino nao encontradas"]

ErroCalculoDetalhado(origem, destino) ==
    [tipo |-> "calculo_distancia", origem |-> origem, destino |-> destino,
     erro |-> ErroCalculo(origem, destino).erro_detalhes.message]

\* resultado as process_linha_paralela first builds it.
NovoResultado(linha) ==
    [linha_excel |-> linha.linha_excel, origem |-> linha.origem,
     total_destinos |-> Len(linha.destinos), destinos_calculados |-> <<>>,
     destino_mais_proximo |-> NoValue, km_mais_proximo |-> NoValue,
     sucessos |-> 0, erros |-> 0, status |-> "processando",
     erros_detalhados |-> <<>>]

\* A variant that leaves the last destination without a geocoding worker.
NovoJobOneWorkerShort(linha) ==
    [pc |-> "submitted", linha |-> linha, origin_coords |-> NoValue,
     gw |-> [i \in 1..(Len(linha.destinos) - 1) |-> [pc |-> "lookup"]],
     destinos_com_coords |-> <<>>,
     cw |-> <<>>,
     resultado |-> NovoResultado(linha),
     dest_geocodes |-> 0, lookups |-> 0, routed |-> 0]

\* The frame of one call of process_linha_paralela.  dest_geocodes, lookups
\* and routed count the destination geocodings, the distance-cache lookups
\* and the calculations that reached the routing client.
NovoJob(linha) ==
    [pc |-> "submitted", linha |-> linha, origin_coords |-> NoValue,
     gw |-> [i \in 1..Len(linha.destinos) |-> [pc |-> "lookup"]],
     destinos_com_coords |-> <<>>,
     cw |-> <<>>,
     resultado |-> NovoResultado(linha),
     dest_geocodes |-> 0, lookups |-> 0, routed |-> 0]

\* A variant that picks the first of the largest.
PyMax(seq) ==
    LET i == CHOOSE i \in 1..Len(seq) :
                 /\ \A k \in 1..Len(seq) : seq[i].value[1] >= seq[k].value[1]
                 /\ \A k \in 1..(i - 1) : seq[k].value[1] # seq[i].value[1]
    IN  seq[i]

\* min(sucessos, key=lambda x: x['distancia_km']): the first of the smallest.
PyMin(seq) ==
    LET i == CHOOSE i \in 1..Len(seq) :
                 /\ \A k \in 1..Len(seq) : seq[i].value[1] <= seq[k].value[1]
                 /\ \A k \in 1..(i - 1) : seq[k].value[1] # seq[i].value[1]
    IN  seq[i]

\* [d for d in destinos_calculados if d['distancia_km'] is not None]
Sucessos(destinos_calculados) ==
    SelectSeq(destinos_calculados, LAMBDA d : d.value # NoValue)

\* A variant that leaves the list as the workers finished.
SortByLinhaNot(seq) == seq

\* list.sort(key=lambda x: x['linha_excel']): ascending and stable.
RECURSIVE SortByLinha(_)
SortByLinha(seq) ==
    IF Len(seq) <= 1 THEN seq
    ELSE LET rest == SortByLinha(SubSeq(seq, 1, Len(seq) - 1))
             x == seq[Len(seq)]
             n == Cardinality({i \in 1..Len(rest) : rest[i].linha_excel <= x.linha_excel})
         IN  SubSeq(rest, 1, n) \o <<x>> \o SubSeq(rest, n + 1, Len(rest))

\* A variant that joins the error lists from the last resultado to the first.
RECURSIVE TodosErrosBackwards(_)
TodosErrosBackwards(resultados) ==
    IF resultados = <<>> THEN <<>>
    ELSE TodosErrosBackwards(Tail(resultados)) \o Head(resultados).erros_detalhados

\* todos_erros.extend(resultado['erros_detalhados']) for every resultado.
RECURSIVE TodosErros(_)
TodosErros(resultados) ==
    IF resultados = <<>> THEN <<>>
    ELSE Head(resultados).erros_detalhados \o TodosErros(Tail(resultados))

RECURSIVE SumOf(_, _)
SumOf(resultados, field) ==
    IF resultados = <<>> THEN 0
    ELSE Head(resultados)[field] + SumOf(Tail(resultados), field)

\* The job goes on as frame; if it has returned, its future is done and the
\* as_completed loop of the batch appends its resultado.
Returned(j, frame) ==
    /\ jobs' = [jobs EXCEPT ![j] = frame]
    /\ batch' = IF frame.pc = "returned"
                THEN [batch EXCEPT !.resultados = Append(@, frame.resultado),
                                   !.concluidas = Append(@, frame.resultado.linha_excel)]
                ELSE batch

\* A variant that goes on to the destinations.
OrigemNaoEncontradaGoesOn(frame) ==
    [frame EXCEPT
       !.pc = "geocoding",
       !.resultado = [@ EXCEPT
           !.status = "origem_nao_encontrada",
           !.erros = Len(frame.linha.destinos),
           !.erros_detalhados = Append(@, ErroOrigem(frame.linha.origem))]]

\* if not origin_coords: status origem_nao_encontrada, erros = len(destinos),
\* one entry in erros_detalhados, return resultado.
OrigemNaoEncontrada(frame) ==
    [frame EXCEPT
       !.pc = "returned",
       !.resultado = [@ EXCEPT
           !.status = "origem_nao_encontrada",
           !.erros = Len(frame.linha.destinos),
           !.erros_detalhados = Append(@, ErroOrigem(frame.linha.origem))]]

\* with ThreadPoolExecutor(max_workers=min(self.max_workers, len(...))): an
\* empty batch makes the constructor raise ValueError; otherwise every line
\* is submitted.
BatchStart ==
    /\ batch.pc = "idle"
    /\ IF Len(linhas) = 0
       THEN /\ batch' = [batch EXCEPT !.pc = "raised"]
            /\ jobs' = jobs
       ELSE /\ batch' = [batch EXCEPT !.pc = "running"]
            /\ jobs' = [j \in 1..Len(linhas) |-> NovoJob(linhas[j])]
    /\ UNCHANGED <<storeVars, geo, calc, linhas, race, auxVars>>

\* origin_coords = self.get_coordinates_with_cache(origem): the cache first.
OriginLookup(j) ==
    /\ jobs[j].pc = "submitted"
    /\ get_coordinates(jobs[j].linha.origem)
    /\ jobs' = [jobs EXCEPT ![j] =
                  IF last'.found
                  THEN [@ EXCEPT !.pc = "geocoding", !.origin_coords = last'.value]
                  ELSE [@ EXCEPT !.pc = "origin_geocode"]]
    /\ UNCHANGED <<geo, calc, linhas, batch, race, auxVars>>

\* The geocoder's outcome for the origin.  Without coordinates the job
\* returns at once.
OriginGeocode(j) ==
    /\ jobs[j].pc = "origin_geocode"
    /\ \E ans \in GeocodeOutcomes(jobs[j].linha.origem) :
          IF ans.kind = "location"
          THEN /\ save_coordinates(jobs[j].linha.origem, ans.coords)
               /\ jobs' = [jobs EXCEPT ![j] = [@ EXCEPT !.pc = "geocoding",
                                                        !.origin_coords = ans.coords]]
               /\ batch' = batch
          ELSE /\ Returned(j, OrigemNaoEncontrada(jobs[j]))
               /\ UNCHANGED storeVars
    /\ UNCHANGED <<geo, calc, linhas, race, auxVars>>

\* The geocoding worker of destination i is done: destinos_com_coords.append.
DestDone(frame, i, coords) ==
    [frame EXCEPT !.gw[i].pc = "done",
                  !.destinos_com_coords =
                      Append(@, [destino |-> frame.linha.destinos[i],
                                 coords |-> coords, idx |-> i])]

\* geocode_destino(destino): the cache first.
DestLookup(j, i) ==
    /\ jobs[j].pc = "geocoding"
    /\ jobs[j].gw[i].pc = "lookup"
    /\ get_coordinates(jobs[j].linha.destinos[i])
    /\ jobs' = [jobs EXCEPT ![j] =
                  LET called == [@ EXCEPT !.dest_geocodes = @ + 1]
                  IN  IF last'.found
                      THEN DestDone(called, i, last'.value)
                      ELSE [called EXCEPT !.gw[i].pc = "geocode"]]
    /\ UNCHANGED <<geo, calc, linhas, batch, race, auxVars>>

\* The geocoder's outcome for destination i.
DestGeocode(j, i) ==
    /\ jobs[j].pc = "geocoding"
    /\ jobs[j].gw[i].pc = "geocode"
    /\ \E ans \in GeocodeOutcomes(jobs[j].linha.destinos[i]) :
          /\ IF ans.kind = "location"
             THEN save_coordinates(jobs[j].linha.destinos[i], ans.coords)
             ELSE UNCHANGED storeVars
          /\ jobs' = [jobs EXCEPT ![j] = DestDone(@, i, ans.coords)]
    /\ UNCHANGED <<geo, calc, linhas, batch, race, auxVars>>

\* A variant that starts the distance workers once one destination is
\* geocoded.
StartCalcEarly(j) ==
    /\ jobs[j].pc = "geocoding"
    /\ \E i \in DOMAIN jobs[j].gw : jobs[j].gw[i].pc = "done"
    /\ jobs' = [jobs EXCEPT ![j] =
                  [@ EXCEPT !.pc = "calculating",
                            !.cw = [k \in 1..Len(jobs[j].destinos_com_coords) |->
                                       [pc |-> "start"]]]]
    /\ UNCHANGED <<storeVars, geo, calc, linhas, batch, race, auxVars>>

\* Every destination is geocoded; the pool of the distance workers is
\* built with max_workers = min(self.max_workers, len(destinos_com_coords)),
\* which raises ValueError for a line without destinations.
StartCalc(j) ==
    /\ jobs[j].pc = "geocoding"
    /\ \A i \in DOMAIN jobs[j].gw : jobs[j].gw[i].pc = "done"
    /\ jobs' = [jobs EXCEPT ![j] =
                  IF Len(@.destinos_com_coords) = 0
                  THEN [@ EXCEPT !.pc = "raised"]
                  ELSE [@ EXCEPT !.pc = "calculating",
                                 !.cw = [k \in 1..Len(jobs[j].destinos_com_coords) |->
                                            [pc |-> "start"]]]]
    /\ UNCHANGED <<storeVars, geo, calc, linhas, batch, race, auxVars>>

\* The distance worker of item k is done: the as_completed loop appends its
\* result and counts it.
CalcDone(frame, k, status, value, erro) ==
    LET item == frame.destinos_com_coords[k]
        calc_resultado == [destino |-> item.destino, idx |-> item.idx,
                           value |-> value, status |-> status,
                           erro_detalhado |-> erro]
        ok == status \in {"sucesso", "cache_hit"}
    IN  [frame EXCEPT
           !.cw[k].pc = "done",
           !.resultado = [@ EXCEPT
               !.destinos_calculados = Append(@, calc_resultado),
               !.sucessos = IF ok THEN @ + 1 ELSE @,
               !.erros = IF ok THEN @ ELSE @ + 1,
               !.erros_detalhados = IF ~ok /\ erro # NoErro THEN Append(@, erro) ELSE @]]

\* calcular_distancia_destino for a destination without coordinates.
CalcSkip(j, k) ==
    /\ jobs[j].pc = "calculating"
    /\ jobs[j].cw[k].pc = "start"
    /\ jobs[j].destinos_com_coords[k].coords = NoValue
    /\ jobs' = [jobs EXCEPT ![j] =
                  CalcDone(@, k, "coordenadas_nao_encontradas", NoValue,
                           ErroDestino(@.linha.origem, @.destinos_com_coords[k].destino))]
    /\ UNCHANGED <<storeVars, geo, calc, linhas, batch, race, auxVars>>

\* calculate_distance_with_retry(...): the distance cache first.
CalcLookup(j, k) ==
    /\ jobs[j].pc = "calculating"
    /\ jobs[j].cw[k].pc = "start"
    /\ jobs[j].destinos_com_coords[k].coords # NoValue
    /\ get_distance(jobs[j].linha.origem, jobs[j].destinos_com_coords[k].destino)
    /\ jobs' = [jobs EXCEPT ![j] =
                  LET looked == [@ EXCEPT !.lookups = @ + 1]
                  IN  IF last'.found
                      THEN CalcDone(looked, k, last'.status, last'.value, NoErro)
                      ELSE [looked EXCEPT !.cw[k].pc = "routing"]]
    /\ UNCHANGED <<geo, calc, linhas, batch, race, auxVars>>

\* The retry loop's outcome: a route within max_retries attempts, saved and
\* returned as sucesso, or erro_calculo after max_retries failed attempts.
CalcRoute(j, k) ==
    /\ jobs[j].pc = "calculating"
    /\ jobs[j].cw[k].pc = "routing"
    /\ LET origem == jobs[j].linha.origem
           destino == jobs[j].destinos_com_coords[k].destino
           routed == [jobs[j] EXCEPT !.routed = @ + 1]
       IN  \/ \E r \in RouteValues :
                /\ save_distance(origem, destino, r[1], r[2])
                /\ jobs' = [jobs EXCEPT ![j] =
                              CalcDone(routed, k, "sucesso",
                                       <<RoundKm(r[1]), RoundMin(r[2])>>, NoErro)]
           \/ /\ UNCHANGED storeVars
              /\ jobs' = [jobs EXCEPT ![j] =
                            CalcDone(routed, k, ErroCalculo(origem, destino).status,
                                     ErroCalculo(origem, destino).value,
                                     ErroCalculoDetalhado(origem, destino))]
    /\ UNCHANGED <<geo, calc, linhas, batch, race, auxVars>>

\* Every distance worker is collected: the nearest destination is picked
\* and the job returns with status concluido.
Finish(j) ==
    /\ jobs[j].pc = "calculating"
    /\ Len(jobs[j].resultado.destinos_calculados) = Len(jobs[j].destinos_com_coords)
    /\ LET sucessos == Sucessos(jobs[j].resultado.destinos_calculados)
           picked == [jobs[j] EXCEPT !.pc = "returned", !.resultado =
                        IF sucessos # <<>>
                        THEN [@ EXCEPT !.destino_mais_proximo = PyMin(sucessos).destino,
                                       !.km_mais_proximo = <<PyMin(sucessos).value[1]>>,
                                       !.status = "concluido"]
                        ELSE [@ EXCEPT !.status = "concluido"]]
       IN  Returned(j, picked)
    /\ UNCHANGED <<storeVars, geo, calc, linhas, race, auxVars>>

\* The pool of the batch is left once every job is finished: an exception
\* of a job leaves process_all_lines_parallel through future.result();
\* otherwise the results are sorted and the totals built.
BatchFinish ==
    /\ batch.pc = "running"
    /\ \A j \in DOMAIN jobs : jobs[j].pc \in {"returned", "raised"}
    /\ batch' = IF \E j \in DOMAIN jobs : jobs[j].pc = "raised"
                THEN [batch EXCEPT !.pc = "raised"]
                ELSE LET resultados == SortByLinha(batch.resultados)
                     IN  [batch EXCEPT !.pc = "done",
                                       !.resultados = resultados,
                                       !.todos_erros = TodosErros(resultados),
                                       !.total_sucessos = SumOf(resultados, "sucessos"),
                                       !.total_erros = SumOf(resultados, "erros")]
    /\ UNCHANGED <<storeVars, geo, calc, linhas, jobs, race, auxVars>>

InitBatch ==
    /\ InitCache
    /\ utc_ahead = 0
    /\ analyzer = IdleAnalyzer
    /\ linhas \in Batches

NextBatch ==
    \/ BatchStart
    \/ \E j \in DOMAIN jobs : OriginLookup(j)
    \/ \E j \in DOMAIN jobs : OriginGeocode(j)
    \/ \E j \in DOMAIN jobs : \E i \in DOMAIN jobs[j].gw : DestLookup(j, i)
    \/ \E j \in DOMAIN jobs : \E i \in DOMAIN jobs[j].gw : DestGeocode(j, i)
    \/ \E j \in DOMAIN jobs : StartCalc(j)
    \/ \E j \in DOMAIN jobs : \E k \in DOMAIN jobs[j].cw : CalcSkip(j, k)
    \/ \E j \in DOMAIN jobs : \E k \in DOMAIN jobs[j].cw : CalcLookup(j, k)
    \/ \E j \in DOMAIN jobs : \E k \in DOMAIN jobs[j].cw : CalcRoute(j, k)
    \/ \E j \in DOMAIN jobs : Finish(j)
    \/ BatchFinish

SpecBatch == InitBatch /\ [][NextBatch]_vars

----------------------------------------------------------------------------
(* AdvancedDistanceSystemSQLite.analyze_spreadsheet_advanced, one row of   *)
(* the sheet a step.                                                       *)

MaxDestCols == 2

\* A cell pandas reads as missing; every other cell is modelled by its str().
NaNCell == <<"NaN">>

\* str.replace('  ', ' '): left to right, the matches do not overlap.
RECURSIVE ReplaceDoubleSpace(_)
ReplaceDoubleSpace(s) ==
    IF Len(s) < 2 THEN s
    ELSE IF s[1] = " " /\ s[2] = " "
    THEN <<" ">> \o ReplaceDoubleSpace(SubSeq(s, 3, Len(s)))
    ELSE <<s[1]>> \o ReplaceDoubleSpace(Tail(s))

\* ['', 'NAN', 'NONE', 'NULL', '#N/A']
EmptyNames ==
    {<<>>, <<"N", "A", "N">>, <<"N", "O", "N", "E">>, <<"N", "U", "L", "L">>,
     <<"#", "N", "/", "A">>}

\* A variant that keeps the case of the name.
_clean_city_name_keeps_case(city_value) ==
    IF city_value = NaNCell THEN NoValue
    ELSE IF strip(city_value) \in EmptyNames THEN NoValue
    ELSE ReplaceDoubleSpace(strip(city_value))

\* None is NoValue, which is the empty str as well: the callers test the
\* result for truth only.
_clean_city_name(city_value) ==
    IF city_value = NaNCell THEN NoValue
    ELSE LET city_clean == upper(strip(city_value))
         IN  IF city_clean \in EmptyNames THEN NoValue
             ELSE ReplaceDoubleSpace(city_clean)

\* The cells of a sheet: missing, empty, 'nan', names, a name in lower case
\* and untrimmed, names with inner spaces.
Cells ==
    {NaNCell, <<>>, <<"n", "a", "n">>, BH, bh_sp, JF,
     <<"B", " ", "H">>, <<"B", " ", " ", "H">>}

\* A row: the cell of column 1 and the cells of the columns from 2 on.
Rows == [origem : Cells, destinos : [1..MaxDestCols -> Cells]]

SampleRows ==
    {[origem |-> BH, destinos |-> [i \in 1..MaxDestCols |-> JF]],
     [origem |-> NaNCell, destinos |-> [i \in 1..MaxDestCols |-> BH]],
     [origem |-> JF, destinos |-> [i \in 1..MaxDestCols |-> bh_sp]]}

\* The sheets: every sheet of one row, and some of two rows.
DataFrames ==
    {<<r>> : r \in Rows} \cup {<<r, q>> : r \in SampleRows, q \in SampleRows}

\* for col in destino_cols: the destinations kept for the row.
RECURSIVE DestinosLinha(_, _)
DestinosLinha(origem, cells) ==
    IF cells = <<>> THEN <<>>
    ELSE LET destino == _clean_city_name(Head(cells))
         IN  IF destino # NoValue /\ destino # origem
             THEN <<destino>> \o DestinosLinha(origem, Tail(cells))
             ELSE DestinosLinha(origem, Tail(cells))

\* ... and how many of the row's cells count as destinos_ignorados.
RECURSIVE DestinosIgnorados(_, _)
DestinosIgnorados(origem, cells) ==
    IF cells = <<>> THEN 0
    ELSE (IF _clean_city_name(Head(cells)) = origem THEN 1 ELSE 0)
         + DestinosIgnorados(origem, Tail(cells))

\* One turn of for idx, row in df.iterrows().
AnalyzeRow ==
    /\ analyzer.pc = "rows"
    /\ analyzer.idx < Len(analyzer.df)
    /\ LET row == analyzer.df[analyzer.idx + 1]
           origem == _clean_city_name(row.origem)
           destinos_linha == DestinosLinha(origem, row.destinos)
       IN  analyzer' =
             IF origem = NoValue
             THEN [analyzer EXCEPT !.idx = @ + 1]
             ELSE [analyzer EXCEPT
                     !.idx = @ + 1,
                     !.destinos_ignorados = @ + DestinosIgnorados(origem, row.destinos),
                     !.linhas_processaveis =
                         IF destinos_linha # <<>>
                         THEN Append(@, Linha(analyzer.idx + 1, origem, destinos_linha))
                         ELSE @]
    /\ UNCHANGED <<storeVars, geo, calc, engineVars, race, coordinates_rows, threads, lateVars>>

\* The loop is over: the analysis is built and returned.
AnalyzeReturn ==
    /\ analyzer.pc = "rows"
    /\ analyzer.idx = Len(analyzer.df)
    /\ analyzer' = [analyzer EXCEPT
                      !.pc = "done",
                      !.total_calculos =
                          SumOf([i \in 1..Len(analyzer.linhas_processaveis) |->
                                   [total_destinos |->
                                      Len(analyzer.linhas_processaveis[i].destinos)]],
                                "total_destinos")]
    /\ UNCHANGED <<storeVars, geo, calc, engineVars, race, coordinates_rows, threads, lateVars>>

InitAnalyze ==
    /\ InitCache
    /\ utc_ahead = 0
    /\ linhas = <<>>
    /\ analyzer \in {[IdleAnalyzer EXCEPT !.pc = "rows", !.df = d] : d \in DataFrames}

NextAnalyze ==
    \/ AnalyzeRow
    \/ AnalyzeReturn

SpecAnalyze == InitAnalyze /\ [][NextAnalyze]_vars

----------------------------------------------------------------------------
(* SQLiteCacheWithDistances.get_coordinates, one SQL statement a step, with *)
(* save_coordinates of other threads running in between.  Each call opens  *)
(* its own connection and no lock is held from the SELECT to the DELETE or *)
(* the UPDATE.                                                             *)

\* SELECT longitude, latitude, expires_at, hits ... ; row = cursor.fetchone()
RaceSelect ==
    /\ race.pc \in {"idle", "done"}
    /\ get_calls.coord < MaxCalls
    /\ \E n \in CityNames :
          LET key == city_hash(n)
          IN  race' = IF key \in DOMAIN coordinates
                      THEN [IdleRace EXCEPT !.pc = "selected", !.city_name = n,
                                           !.at = now, !.found = TRUE,
                                           !.row = coordinates[key]]
                      ELSE [IdleRace EXCEPT !.pc = "selected", !.city_name = n,
                                           !.at = now]
    /\ UNCHANGED <<storeVars, geo, calc, engineVars, auxVars>>

\* The rest of the call: no row, a miss; an expired row, DELETE and a miss;
\* otherwise UPDATE hits and a hit with the coordinates that were read.
RaceFinish ==
    /\ race.pc = "selected"
    /\ LET key == city_hash(race.city_name)
           n == race.city_name
       IN  IF ~race.found
           THEN /\ coordinates' = coordinates
                /\ cache_stats' = _update_stats(cache_stats, "coord_misses", now)
                /\ last' = Call("get_coordinates", n, <<>>, FALSE, NoValue, "miss")
                /\ race' = [race EXCEPT !.pc = "done"]
           ELSE IF IsExpired(race.row, now)
           THEN /\ coordinates' = DeleteRow(coordinates, key)
                /\ cache_stats' = _update_stats(cache_stats, "coord_misses", now)
                /\ last' = Call("get_coordinates", n, <<>>, FALSE, NoValue, "expired")
                /\ race' = [race EXCEPT !.pc = "done"]
           ELSE /\ coordinates' = IF key \in DOMAIN coordinates
                                  THEN BumpHits(coordinates, key) ELSE coordinates
                /\ cache_stats' = _update_stats(cache_stats, "coord_hits", now)
                /\ last' = Call("get_coordinates", n, <<>>, TRUE,
                                <<race.row.longitude, race.row.latitude>>, "hit")
                /\ race' = [race EXCEPT !.pc = "done",
                                        !.ret = <<race.row.longitude, race.row.latitude>>]
    /\ get_calls' = [get_calls EXCEPT !.coord = @ + 1]
    /\ UNCHANGED <<distances, now, utc_ahead, geo, calc, engineVars, auxVars>>

NextRace ==
    \/ RaceSelect
    \/ RaceFinish
    \/ SaveCoordinates
    \/ Tick

SpecRace == InitResolvers /\ [][NextRace]_vars

----------------------------------------------------------------------------
(* save_coordinates and get_coordinates called by several threads, one     *)
(* transaction a step.  Every call opens its own connection; SQLite runs   *)
(* each statement, and each transaction up to its commit, as a whole.      *)
(* Table coordinates is held row by row, table cache_stats by its primary  *)
(* key.                                                                    *)

\* A variant that inserts without replacing.
InsertInto(rows, row) == Append(rows, row)

\* INSERT OR REPLACE under city_hash TEXT UNIQUE: the rows in conflict are
\* deleted, then the row is inserted.
ReplaceInto(rows, row) ==
    SelectSeq(rows, LAMBDA r : r.city_hash # row.city_hash) \o <<row>>

\* ... WHERE city_hash = ?
RowsOf(rows, key) == SelectSeq(rows, LAMBDA r : r.city_hash = key)

\* DELETE FROM coordinates WHERE city_hash = ?
DeleteFrom(rows, key) == SelectSeq(rows, LAMBDA r : r.city_hash # key)

\* UPDATE coordinates SET hits = hits + 1 WHERE city_hash = ?
UpdateHits(rows, key) ==
    [i \in 1..Len(rows) |->
       IF rows[i].city_hash = key THEN [rows[i] EXCEPT !.hits = @ + 1] ELSE rows[i]]

\* The threads ask for one name and save it, the same key for all.
ThreadNames == {BH}

MaxThreadCalls == 3

RECURSIVE SumThreads(_, _)
SumThreads(S, field) ==
    IF S = {} THEN 0
    ELSE LET t == CHOOSE x \in S : TRUE
         IN  threads[t][field] + SumThreads(S \ {t}, field)

\* The calls begun so far.
ThreadCalls ==
    SumThreads(Threads, "hits") + SumThreads(Threads, "misses")
    + SumThreads(Threads, "saves")
    + Cardinality({t \in Threads : threads[t].pc = "selected"})

\* save_coordinates up to self._update_stats('coord_saves').
ThreadSave(t) ==
    /\ threads[t].pc = "idle"
    /\ ThreadCalls < MaxThreadCalls
    /\ \E n \in ThreadNames, c \in CoordValues :
          /\ coordinates_rows' =
                ReplaceInto(coordinates_rows,
                            [city_hash |-> city_hash(n), city_name |-> n,
                             longitude |-> c[1], latitude |-> c[2],
                             expires_at |-> isoformat(now + TtlTicks), hits |-> 0])
          /\ threads' = [threads EXCEPT ![t] =
                           [@ EXCEPT !.pc = "stats", !.city_name = n,
                                     !.action = "coord_saves", !.found = FALSE,
                                     !.row = NoRow, !.ret = NoValue,
                                     !.saved = @ \cup {c}, !.saves = @ + 1]]
    /\ UNCHANGED <<storeVars, geo, calc, engineVars, race, analyzer, lateVars>>

\* get_coordinates: the SELECT and row = cursor.fetchone().
ThreadSelect(t) ==
    /\ threads[t].pc = "idle"
    /\ ThreadCalls < MaxThreadCalls
    /\ \E n \in ThreadNames :
          LET rows == RowsOf(coordinates_rows, city_hash(n))
              began == [threads[t] EXCEPT !.pc = "selected", !.city_name = n,
                                          !.at = now, !.found = FALSE,
                                          !.row = NoRow, !.ret = NoValue]
          IN  threads' = [threads EXCEPT ![t] =
                            IF rows = <<>> THEN began
                            ELSE [began EXCEPT
                                    !.found = TRUE,
                                    !.row = [city_name |-> rows[1].city_name,
                                             longitude |-> rows[1].longitude,
                                             latitude |-> rows[1].latitude,
                                             expires_at |-> rows[1].expires_at,
                                             hits |-> rows[1].hits]]]
    /\ UNCHANGED <<storeVars, geo, calc, engineVars, race, coordinates_rows, analyzer, lateVars>>

\* get_coordinates from the SELECT to its self._update_stats(...): no row, a
\* miss; an expired row, DELETE and a miss; otherwise UPDATE hits and a hit
\* with the coordinates of the row that was read.
ThreadFinish(t) ==
    /\ threads[t].pc = "selected"
    /\ LET f == threads[t]
           key == city_hash(f.city_name)
       IN  IF ~f.found
           THEN /\ coordinates_rows' = coordinates_rows
                /\ threads' = [threads EXCEPT ![t] =
                                 [@ EXCEPT !.pc = "stats", !.action = "coord_misses",
                                           !.misses = @ + 1]]
           ELSE IF IsExpired(f.row, now)
           THEN /\ coordinates_rows' = DeleteFrom(coordinates_rows, key)
                /\ threads' = [threads EXCEPT ![t] =
                                 [@ EXCEPT !.pc = "stats", !.action = "coord_misses",
                                           !.misses = @ + 1]]
           ELSE /\ coordinates_rows' = UpdateHits(coordinates_rows, key)
                /\ threads' = [threads EXCEPT ![t] =
                                 [@ EXCEPT !.pc = "stats", !.action = "coord_hits",
                                           !.hits = @ + 1,
                                           !.ret = <<f.row.longitude, f.row.latitude>>]]
    /\ UNCHANGED <<storeVars, geo, calc, engineVars, race, analyzer, lateVars>>

\* _update_stats: today = datetime.now().date().isoformat() and the SELECT
\* of today's row.
StatsSelect(t) ==
    /\ threads[t].pc = "stats"
    /\ threads' = [threads EXCEPT ![t] =
                     [@ EXCEPT !.pc = "stats_selected", !.at = now,
                               !.seen = today(now) \in DOMAIN cache_stats]]
    /\ UNCHANGED <<storeVars, geo, calc, engineVars, race, coordinates_rows, analyzer, lateVars>>

\* _update_stats: the INSERT if the SELECT found no row, the UPDATE and the
\* commit.  date is the PRIMARY KEY of cache_stats: the INSERT of a row that
\* another thread has inserted since the SELECT raises sqlite3.IntegrityError,
\* which nothing catches.
StatsWrite(t) ==
    /\ threads[t].pc = "stats_selected"
    /\ IF ~threads[t].seen /\ today(threads[t].at) \in DOMAIN cache_stats
       THEN /\ cache_stats' = cache_stats
            /\ threads' = [threads EXCEPT ![t] = [@ EXCEPT !.pc = "raised"]]
       ELSE /\ cache_stats' = _update_stats(cache_stats, threads[t].action,
                                            threads[t].at)
            /\ threads' = [threads EXCEPT ![t] =
                             [IdleThread EXCEPT !.saved = threads[t].saved,
                                                !.hits = threads[t].hits,
                                                !.misses = threads[t].misses,
                                                !.saves = threads[t].saves]]
    /\ UNCHANGED <<coordinates, distances, now, utc_ahead, last, get_calls, geo, calc,
                 engineVars, race, coordinates_rows, analyzer, lateVars>>

NextThreads ==
    \/ \E t \in Threads : ThreadSave(t)
    \/ \E t \in Threads : ThreadSelect(t)
    \/ \E t \in Threads : ThreadFinish(t)
    \/ \E t \in Threads : StatsSelect(t)
    \/ \E t \in Threads : StatsWrite(t)
    \/ Tick

SpecThreads == InitResolvers /\ [][NextThreads]_vars

----------------------------------------------------------------------------
(* SQLiteCache.save_coordinates (sqlite_cache.py), the cache configured    *)
(* with max_entries.                                                       *)

\* self.max_entries, as given to __init__.
max_entries == 2

\* The names saved: four places, one of them also in lower case with a
\* trailing space.
CapacityNames == {BH, bh_sp, JF, SP, RJ}

\* The lists handed in as coordinates.
CapacityInputs == CoordValues \cup {<<>>, <<-44>>, <<-44, -20, 7>>}

_get_city_hash(city_name) == sha256(strip(upper(city_name)))

_normalize_city_name(city_name) == ReplaceDoubleSpace(strip(upper(city_name)))

\* INSERT INTO coordinates ... ON CONFLICT(city_hash) DO UPDATE SET
\* longitude, latitude, expires_at, ...: the row in conflict keeps its
\* city_name and its hits.
Upsert(table, key, row) ==
    IF key \in DOMAIN table
    THEN (key :> [table[key] EXCEPT !.longitude = row.longitude,
                                    !.latitude = row.latitude,
                                    !.expires_at = row.expires_at]) @@ table
    ELSE (key :> row) @@ table

\* save_coordinates(city_name, coordinates): False for a list that is empty
\* or not of two elements, otherwise the upsert and True.
SQLiteSaveCoordinates ==
    /\ \E city_name \in CapacityNames, coords \in CapacityInputs :
          sqlite_cache' =
            IF coords = <<>> \/ Len(coords) # 2
            THEN [sqlite_cache EXCEPT !.ret = FALSE, !.called = TRUE]
            ELSE [sqlite_cache EXCEPT
                    !.coordinates =
                        Upsert(@, _get_city_hash(city_name),
                               [city_name |-> city_name,
                                city_name_normalized |-> _normalize_city_name(city_name),
                                longitude |-> coords[1], latitude |-> coords[2],
                                expires_at |-> isoformat(now + TtlTicks), hits |-> 0]),
                    !.ret = TRUE, !.called = TRUE]
    /\ UNCHANGED <<storeVars, geo, calc, engineVars, race, coordinates_rows, threads,
                   analyzer, pool, worker>>

NextCapacity == SQLiteSaveCoordinates

SpecCapacity == Init /\ [][NextCapacity]_vars

----------------------------------------------------------------------------

(* One thread of the distance pool of process_linha_paralela: it runs      *)
(* calcular_distancia_destino for one item after another, one cache        *)
(* lookup, one routing request or one sleep a step.                        *)

MaxTasks == 2

\* The job's origin and the (destino, dest_coords) items its thread may get.
WorkerOrigem == BH

WorkerItems ==
    {[destino |-> d, coords |-> c] : d \in {JF, SP}, c \in {NoValue, <<-43, -22>>}}

RECURSIVE SeqsUpTo(_, _)
SeqsUpTo(S, n) ==
    IF n = 0 THEN {<<>>}
    ELSE LET shorter == SeqsUpTo(S, n - 1)
         IN  shorter \cup {Append(q, x) : q \in {s \in shorter : Len(s) = n - 1}, x \in S}

\* A routing request, and a sleep of so many tenths of a second.
Request == [kind |-> "request", tenths |-> 0]
Sleep(tenths) == [kind |-> "sleep", tenths |-> tenths]

\* The pool hands the thread its items.
WorkerStart ==
    /\ worker.pc = "idle"
    /\ \E tasks \in SeqsUpTo(WorkerItems, MaxTasks) \ {<<>>} :
          worker' = [worker EXCEPT !.pc = "take", !.tasks = tasks]
    /\ UNCHANGED <<storeVars, geo, calc, engineVars, race, coordinates_rows, threads,
                   analyzer, sqlite_cache, pool>>

\* calcular_distancia_destino(item): an item without coordinates returns at
\* once; otherwise calculate_distance_with_retry asks the distance cache.
WorkerTake ==
    /\ worker.pc = "take"
    /\ worker.tasks # <<>>
    /\ LET item == Head(worker.tasks)
       IN  IF item.coords = NoValue
           THEN /\ worker' = [worker EXCEPT !.tasks = Tail(@)]
                /\ UNCHANGED storeVars
           ELSE /\ get_distance(WorkerOrigem, item.destino)
                /\ worker' = IF last'.found
                             THEN [worker EXCEPT !.pc = "sleep"]
                             ELSE [worker EXCEPT !.pc = "request", !.attempt = 0]
    /\ UNCHANGED <<geo, calc, engineVars, race, coordinates_rows, threads,
                   analyzer, sqlite_cache, pool>>

\* requests.get answers 200 with a route: saved, returned.
WorkerRequestOk ==
    /\ worker.pc = "request"
    /\ \E r \in RouteValues :
          save_distance(WorkerOrigem, Head(worker.tasks).destino, r[1], r[2])
    /\ worker' = [worker EXCEPT !.pc = "sleep", !.events = Append(@, Request)]
    /\ UNCHANGED <<geo, calc, engineVars, race, coordinates_rows, threads,
                   analyzer, sqlite_cache, pool>>

\* The attempt fails: the backoff sleep if one follows, else the next turn
\* of the loop, or the end of the loop and the return of erro_calculo.
WorkerRequestFails ==
    /\ worker.pc = "request"
    /\ LET sent == [worker EXCEPT !.events = Append(@, Request)]
       IN  worker' = IF SleepsAfter(worker.attempt)
                     THEN [sent EXCEPT !.pc = "backoff"]
                     ELSE IF worker.attempt + 1 < max_retries
                     THEN [sent EXCEPT !.attempt = @ + 1]
                     ELSE [sent EXCEPT !.pc = "sleep"]
    /\ UNCHANGED <<storeVars, geo, calc, engineVars, race, coordinates_rows, threads,
                   analyzer, sqlite_cache, pool>>

\* time.sleep(2 ** attempt), then the next turn of the loop or its end.
WorkerBackoff ==
    /\ worker.pc = "backoff"
    /\ LET slept == [worker EXCEPT
                       !.events = Append(@, Sleep(10 * BackoffDelay(worker.attempt)))]
       IN  worker' = IF worker.attempt + 1 < max_retries
                     THEN [slept EXCEPT !.pc = "request", !.attempt = @ + 1]
                     ELSE [slept EXCEPT !.pc = "sleep"]
    /\ UNCHANGED <<storeVars, geo, calc, engineVars, race, coordinates_rows, threads,
                   analyzer, sqlite_cache, pool>>

\* time.sleep(0.1); return resultado_calc: the thread is free for its next
\* item.
WorkerSleep ==
    /\ worker.pc = "sleep"
    /\ worker' = [worker EXCEPT !.pc = "take", !.tasks = Tail(@), !.attempt = 0,
                                !.events = Append(@, Sleep(1))]
    /\ UNCHANGED <<storeVars, geo, calc, engineVars, race, coordinates_rows, threads,
                   analyzer, sqlite_cache, pool>>

NextWorker ==
    \/ WorkerStart
    \/ WorkerTake
    \/ WorkerRequestOk
    \/ WorkerRequestFails
    \/ WorkerBackoff
    \/ WorkerSleep

SpecWorker == InitResolvers /\ [][NextWorker]_vars

----------------------------------------------------------------------------

(* process_all_lines_parallel and process_linha_paralela with their three  *)
(* thread pools: a task waits until a thread of its pool is free, and the  *)
(* geocoder and the routing service are called one request a step (the     *)
(* sleep after a failed request goes with it).                             *)

MaxWorkers == 2

Count(f, x) == IF x \in DOMAIN f THEN f[x] ELSE 0

Bump(f, x) == (x :> (Count(f, x) + 1)) @@ f

Drop(f, x) == [y \in DOMAIN f \ {x} |-> f[y]]

\* One more call of a resolver (origin, geocoder or routing) for task x,
\* which the call ends or does not end.
Called(p, resolver, x, ends) ==
    LET made == Count(p[resolver], x) + 1
    IN  [p EXCEPT ![resolver] = IF ends THEN Drop(@, x) ELSE Bump(@, x),
                  !.peak[resolver] = IF made > @ THEN made ELSE @]

\* A variant with one thread per task.
PoolSizePerTask(workers, tasks) == tasks

\* max_workers=min(self.max_workers, len(...))
PoolSize(workers, tasks) == IF workers < tasks THEN workers ELSE tasks

\* A variant that takes one turn more.
InRangeInclusive(attempt, n) == attempt <= n

\* for attempt in range(n): is there a turn for attempt?
InRange(attempt, n) == attempt < n

\* The jobs a thread of the batch pool is running.
RunningJobs ==
    {j \in DOMAIN jobs : jobs[j].pc \notin {"submitted", "returned", "raised"}}

\* The destinations of job j a thread of its geocoding pool is working on,
\* and the items a thread of its distance pool is working on.
Geocoding(j) == {i \in DOMAIN jobs[j].gw : jobs[j].gw[i].pc = "geocode"}

Routing(j) == {k \in DOMAIN jobs[j].cw : jobs[j].cw[k].pc = "routing"}

\* ParallelProcessor(max_workers)
Construct ==
    /\ pool.max_workers = 0
    /\ \E n \in 1..MaxWorkers : pool' = [pool EXCEPT !.max_workers = n]
    /\ UNCHANGED <<storeVars, geo, calc, engineVars, race, coordinates_rows, threads,
                   analyzer, sqlite_cache, worker>>

PoolBatchStart == pool.max_workers > 0 /\ BatchStart

\* A thread of the batch pool takes the job.
PoolOriginLookup(j) ==
    /\ Cardinality(RunningJobs) < PoolSize(pool.max_workers, Len(linhas))
    /\ OriginLookup(j)

\* One geocoder call for the origin: a location ends the search, an empty
\* answer leads to the second query or, after it, to None, an exception to
\* None.
PoolOriginQuery(j) ==
    /\ jobs[j].pc = "origin_geocode"
    /\ LET origem == jobs[j].linha.origem
           asked == Count(pool.origin, j) + 1
       IN  \E kind \in {"location", "none", "raise"} :
             IF kind = "location"
             THEN /\ save_coordinates(origem, Located(origem))
                  /\ jobs' = [jobs EXCEPT ![j] = [@ EXCEPT !.pc = "geocoding",
                                                           !.origin_coords = Located(origem)]]
                  /\ batch' = batch
                  /\ pool' = Called(pool, "origin", j, TRUE)
             ELSE IF kind = "none" /\ asked < Len(GeocodeQueries(origem))
             THEN /\ UNCHANGED <<storeVars, jobs, batch>>
                  /\ pool' = Called(pool, "origin", j, FALSE)
             ELSE /\ Returned(j, OrigemNaoEncontrada(jobs[j]))
                  /\ UNCHANGED storeVars
                  /\ pool' = Called(pool, "origin", j, TRUE)
    /\ UNCHANGED <<geo, calc, linhas, race, coordinates_rows, threads, analyzer,
                   sqlite_cache, worker>>

\* A thread of the job's geocoding pool takes destination i.
PoolDestLookup(j, i) ==
    /\ Cardinality(Geocoding(j)) < pool.max_workers
    /\ DestLookup(j, i)

\* One geocoder call for destination i.
PoolDestQuery(j, i) ==
    /\ jobs[j].pc = "geocoding"
    /\ jobs[j].gw[i].pc = "geocode"
    /\ LET destino == jobs[j].linha.destinos[i]
           asked == Count(pool.geocoder, <<j, i>>) + 1
       IN  \E kind \in {"location", "none", "raise"} :
             IF kind = "location"
             THEN /\ save_coordinates(destino, Located(destino))
                  /\ jobs' = [jobs EXCEPT ![j] = DestDone(@, i, Located(destino))]
                  /\ pool' = Called(pool, "geocoder", <<j, i>>, TRUE)
             ELSE IF kind = "none" /\ asked < Len(GeocodeQueries(destino))
             THEN /\ UNCHANGED <<storeVars, jobs>>
                  /\ pool' = Called(pool, "geocoder", <<j, i>>, FALSE)
             ELSE /\ jobs' = [jobs EXCEPT ![j] = DestDone(@, i, NoValue)]
                  /\ UNCHANGED storeVars
                  /\ pool' = Called(pool, "geocoder", <<j, i>>, TRUE)
    /\ UNCHANGED <<geo, calc, linhas, batch, race, coordinates_rows, threads, analyzer,
                   sqlite_cache, worker>>

\* A thread of the job's distance pool takes item k.
PoolCalcSkip(j, k) ==
    /\ Cardinality(Routing(j))
         < PoolSize(pool.max_workers, Len(jobs[j].destinos_com_coords))
    /\ CalcSkip(j, k)

PoolCalcLookup(j, k) ==
    /\ Cardinality(Routing(j))
         < PoolSize(pool.max_workers, Len(jobs[j].destinos_com_coords))
    /\ CalcLookup(j, k)

\* One routing request for item k: a route is saved and returned; a failure
\* leads to the next turn of the loop or, after the last, to erro_calculo.
PoolRouteAttempt(j, k) ==
    /\ jobs[j].pc = "calculating"
    /\ jobs[j].cw[k].pc = "routing"
    /\ LET origem == jobs[j].linha.origem
           destino == jobs[j].destinos_com_coords[k].destino
           attempt == Count(pool.routing, <<j, k>>)
           routed == IF attempt = 0 THEN [jobs[j] EXCEPT !.routed = @ + 1] ELSE jobs[j]
       IN  \/ \E r \in RouteValues :
                /\ save_distance(origem, destino, r[1], r[2])
                /\ jobs' = [jobs EXCEPT ![j] =
                              CalcDone(routed, k, FreshResult(r).status,
                                       FreshResult(r).value, NoErro)]
                /\ pool' = Called(pool, "routing", <<j, k>>, TRUE)
           \/ /\ UNCHANGED storeVars
              /\ IF InRange(attempt + 1, max_retries)
                 THEN /\ jobs' = [jobs EXCEPT ![j] = routed]
                      /\ pool' = Called(pool, "routing", <<j, k>>, FALSE)
                 ELSE /\ jobs' = [jobs EXCEPT ![j] =
                                    CalcDone(routed, k, ErroCalculo(origem, destino).status,
                                             ErroCalculo(origem, destino).value,
                                             ErroCalculoDetalhado(origem, destino))]
                      /\ pool' = Called(pool, "routing", <<j, k>>, TRUE)
    /\ UNCHANGED <<geo, calc, linhas, batch, race, coordinates_rows, threads, analyzer,
                   sqlite_cache, worker>>

\* The batches given to the pools: more jobs than threads, more
\* destinations than threads, none of either.
PoolBatches ==
    { <<>>,
      <<Linha(2, BH, <<JF>>), Linha(3, JF, <<BH, SP>>)>>,
      <<Linha(1, BH, <<>>)>> }

InitPools ==
    /\ InitCache
    /\ utc_ahead = 0
    /\ analyzer = IdleAnalyzer
    /\ linhas \in PoolBatches

NextPools ==
    \/ Construct
    \/ PoolBatchStart
    \/ \E j \in DOMAIN jobs : PoolOriginLookup(j)
    \/ \E j \in DOMAIN jobs : PoolOriginQuery(j)
    \/ \E j \in DOMAIN jobs : \E i \in DOMAIN jobs[j].gw : PoolDestLookup(j, i)
    \/ \E j \in DOMAIN jobs : \E i \in DOMAIN jobs[j].gw : PoolDestQuery(j, i)
    \/ \E j \in DOMAIN jobs : StartCalc(j)
    \/ \E j \in DOMAIN jobs : \E k \in DOMAIN jobs[j].cw : PoolCalcSkip(j, k)
    \/ \E j \in DOMAIN jobs : \E k \in DOMAIN jobs[j].cw : PoolCalcLookup(j, k)
    \/ \E j \in DOMAIN jobs : \E k \in DOMAIN jobs[j].cw : PoolRouteAttempt(j, k)
    \/ \E j \in DOMAIN jobs : Finish(j)
    \/ BatchFinish

SpecPools == InitPools /\ [][NextPools]_vars

\* The batches whose every run is followed to its end.
FairBatches ==
    { <<>>,
      <<Linha(1, BH, <<JF>>), Linha(2, JF, <<BH>>)>>,
      <<Linha(1, BH, <<JF, SP>>)>>,
      <<Linha(1, BH, <<>>)>> }

InitPoolsFair ==
    /\ InitCache
    /\ utc_ahead = 0
    /\ analyzer = IdleAnalyzer
    /\ linhas \in FairBatches

\* Every call of the geocoder and of the routing service comes back, and as
\* long as some thread can take a step, a step is taken.
SpecPoolsFair == InitPoolsFair /\ [][NextPools]_vars /\ WF_vars(NextPools)

----------------------------------------------------------------------------

(* Properties of the store.                                                *)

CoordHits == SumRows(cache_stats, "coord_hits")
CoordMisses == SumRows(cache_stats, "coord_misses")
CoordSaves == SumRows(cache_stats, "coord_saves")
DistanceHits == SumRows(cache_stats, "distance_hits")
DistanceMisses == SumRows(cache_stats, "distance_misses")
DistanceSaves == SumRows(cache_stats, "distance_saves")

\* now <= expires_at: the entry is within its TTL.
WithinTtl(row) == now <= fromisoformat(row.expires_at)

\* res is v rounded to a multiple of unit.
RoundedTo(res, v, unit) ==
    /\ res % unit = 0
    /\ 2 * (IF res >= v THEN res - v ELSE v - res) <= unit

\* The route hash of any two names is the same in either order.
RouteHashSymmetric ==
    \A p \in CityNames \X CityNames :
        _get_route_hash(p[1], p[2]) = _get_route_hash(p[2], p[1])

\* C1: the route hash of two names does not depend on their order: every
\* stored distance row is under the key of its two names taken either way, and
\* a get_distance(B, A) made while the row saved as (A, B) is within its TTL
\* finds that row and returns its distance and duration.
C1_Symmetry ==
    [][ /\ RouteHashSymmetric
        /\ \A k \in DOMAIN distances :
              /\ k = _get_route_hash(distances[k].origin_city,
                                     distances[k].destination_city)
              /\ k = _get_route_hash(distances[k].destination_city,
                                     distances[k].origin_city)
              /\ ( /\ last'.op = "get_distance"
                   /\ last'.a = distances[k].destination_city
                   /\ last'.b = distances[k].origin_city
                   /\ WithinTtl(distances[k]) )
                 => /\ last'.found
                    /\ last'.status = "cache_hit"
                    /\ RoundedTo(last'.value[1], distances[k].distance_km, 10)
                    /\ RoundedTo(last'.value[2], distances[k].duration_minutes, 60)
                    /\ k \in DOMAIN distances'
      ]_vars

\* A get_distance(B, A) has just hit the row that was saved as (A, B).
C1_Witness ==
    /\ last.op = "get_distance"
    /\ last.found
    /\ last.a # last.b
    /\ \E k \in DOMAIN distances :
          /\ distances[k].origin_city = last.b
          /\ distances[k].destination_city = last.a
          /\ distances[k].hits = 1

\* C2: a get_coordinates(n') made while an entry saved under a name n is
\* within its TTL, n and n' being equal once upper-cased and trimmed, returns
\* the coordinates of that entry, and a first such Get leaves its hits at 1.
C2_CanonicalKey ==
    [][ \A k \in DOMAIN coordinates :
          ( /\ last'.op = "get_coordinates"
            /\ strip(upper(last'.a)) = strip(upper(coordinates[k].city_name))
            /\ WithinTtl(coordinates[k]) )
          => /\ last'.found
             /\ last'.value = <<coordinates[k].longitude, coordinates[k].latitude>>
             /\ k \in DOMAIN coordinates'
             /\ coordinates[k].hits = 0 => coordinates'[k].hits = 1
      ]_vars

\* What a Put stores and what a Get of a live entry does to it, for both kinds.
PutStores ==
    /\ last'.op = "save_coordinates" =>
          /\ city_hash(last'.a) \in DOMAIN coordinates'
          /\ last'.value = <<coordinates'[city_hash(last'.a)].longitude,
                             coordinates'[city_hash(last'.a)].latitude>>
    /\ last'.op = "save_distance" =>
          /\ _get_route_hash(last'.a, last'.b) \in DOMAIN distances'
          /\ last'.value =
                <<distances'[_get_route_hash(last'.a, last'.b)].distance_km,
                  distances'[_get_route_hash(last'.a, last'.b)].duration_minutes>>

GetCoordinatesReturnsStored ==
    \A k \in DOMAIN coordinates :
      ( /\ last'.op = "get_coordinates"
        /\ city_hash(last'.a) = k
        /\ WithinTtl(coordinates[k]) )
      => /\ last'.found
         /\ last'.value = <<coordinates[k].longitude, coordinates[k].latitude>>
         /\ coordinates' = [coordinates EXCEPT ![k].hits = coordinates[k].hits + 1]

GetDistanceBumpsHits ==
    \A k \in DOMAIN distances :
      ( /\ last'.op = "get_distance"
        /\ _get_route_hash(last'.a, last'.b) = k
        /\ WithinTtl(distances[k]) )
      => /\ last'.found
         /\ distances' = [distances EXCEPT ![k].hits = distances[k].hits + 1]

\* C3, as the code has it: a Put stores the value it is given; a Get of the
\* same key within TTL returns the coordinates exactly as Put, and for a
\* distance returns distance_km rounded to 2 decimals and duration_min rounded
\* to 0 decimals; each such Get increases the entry's hits by exactly 1.
C3_RoundTripRounded ==
    [][ /\ PutStores
        /\ GetCoordinatesReturnsStored
        /\ GetDistanceBumpsHits
        /\ \A k \in DOMAIN distances :
              ( /\ last'.op = "get_distance"
                /\ _get_route_hash(last'.a, last'.b) = k
                /\ WithinTtl(distances[k]) )
              => /\ RoundedTo(last'.value[1], distances[k].distance_km, 10)
                 /\ RoundedTo(last'.value[2], distances[k].duration_minutes, 60)
      ]_vars

\* A get_distance has just returned a distance that is not the one stored.
C3_Witness ==
    /\ last.op = "get_distance"
    /\ last.found
    /\ \E k \in DOMAIN distances :
          /\ k = _get_route_hash(last.a, last.b)
          /\ distances[k].hits = 1
          /\ last.value[1] # distances[k].distance_km

\* C3 as claimed: the Get returns exactly the value that was Put, for both
\* kinds, and increases hits by exactly 1.
C3_RoundTripExact ==
    [][ /\ PutStores
        /\ GetCoordinatesReturnsStored
        /\ GetDistanceBumpsHits
        /\ \A k \in DOMAIN distances :
              ( /\ last'.op = "get_distance"
                /\ _get_route_hash(last'.a, last'.b) = k
                /\ WithinTtl(distances[k]) )
              => last'.value = <<distances[k].distance_km,
                                distances[k].duration_minutes>>
      ]_vars

\* C4: a Get that finds an entry with now > expires_at deletes it, returns
\* not-found and counts a miss; a Get that finds a live entry leaves it
\* stored with hits one higher, returns found and counts a hit.
C4_LazyExpiry ==
    [][ /\ \A k \in DOMAIN coordinates :
              (last'.op = "get_coordinates" /\ city_hash(last'.a) = k)
              => IF now > fromisoformat(coordinates[k].expires_at)
                 THEN /\ k \notin DOMAIN coordinates'
                      /\ ~last'.found
                      /\ CoordMisses' = CoordMisses + 1
                      /\ CoordHits' = CoordHits
                 ELSE /\ k \in DOMAIN coordinates'
                      /\ coordinates'[k] =
                            [coordinates[k] EXCEPT !.hits = coordinates[k].hits + 1]
                      /\ last'.found
                      /\ CoordHits' = CoordHits + 1
                      /\ CoordMisses' = CoordMisses
        /\ \A k \in DOMAIN distances :
              (last'.op = "get_distance" /\ _get_route_hash(last'.a, last'.b) = k)
              => IF now > fromisoformat(distances[k].expires_at)
                 THEN /\ k \notin DOMAIN distances'
                      /\ ~last'.found
                      /\ DistanceMisses' = DistanceMisses + 1
                      /\ DistanceHits' = DistanceHits
                 ELSE /\ k \in DOMAIN distances'
                      /\ distances'[k] =
                            [distances[k] EXCEPT !.hits = distances[k].hits + 1]
                      /\ last'.found
                      /\ DistanceHits' = DistanceHits + 1
                      /\ DistanceMisses' = DistanceMisses
      ]_vars

\* A Get has just deleted an expired entry.
C4_Witness ==
    /\ last.op \in {"get_coordinates", "get_distance"}
    /\ last.status = "expired"
    /\ ~last.found
    /\ CoordMisses + DistanceMisses = 1
    /\ CoordSaves + DistanceSaves = 1
    /\ coordinates = <<>>
    /\ distances = <<>>

\* C5: the Get test and the Stats test classify every entry the same way:
\* total_entries counts exactly the entries with now <= expires_at, so an
\* entry with now > expires_at is never counted.
C5_ExpiryConsistent ==
    last.op = "get_cache_stats" =>
        last.total_entries =
            Cardinality({k \in DOMAIN coordinates : WithinTtl(coordinates[k])})
            + Cardinality({k \in DOMAIN distances : WithinTtl(distances[k])})

\* C6: every Get increments exactly one of the hit and the miss counter of
\* its own kind by exactly 1 and leaves the other kind's counters alone, so
\* hits + misses of a kind is the number of Get calls of that kind since the
\* last clear_cache.
C6_OneCounterPerGet ==
    [][ /\ last'.op = "get_coordinates" =>
              /\ \/ CoordHits' = CoordHits + 1 /\ CoordMisses' = CoordMisses
                 \/ CoordHits' = CoordHits /\ CoordMisses' = CoordMisses + 1
              /\ DistanceHits' = DistanceHits
              /\ DistanceMisses' = DistanceMisses
        /\ last'.op = "get_distance" =>
              /\ \/ DistanceHits' = DistanceHits + 1 /\ DistanceMisses' = DistanceMisses
                 \/ DistanceHits' = DistanceHits /\ DistanceMisses' = DistanceMisses + 1
              /\ CoordHits' = CoordHits
              /\ CoordMisses' = CoordMisses
        /\ CoordHits' + CoordMisses' = get_calls'.coord
        /\ DistanceHits' + DistanceMisses' = get_calls'.distance
      ]_vars

\* A Get has been counted as a hit in the row of a later day than the save.
C6_Witness ==
    /\ last.op \in {"get_coordinates", "get_distance"}
    /\ last.found
    /\ get_calls.coord + get_calls.distance = 1
    /\ CoordHits + DistanceHits = 1
    /\ Cardinality(DOMAIN cache_stats) = 2

----------------------------------------------------------------------------
(* Properties of the resolvers.                                            *)

Last(seq) == seq[Len(seq)]

\* The call of get_coordinates_with_cache that has just returned.
GeoReturned ==
    geo.pc = "done" =>
      /\ geo.hit =>
            /\ geo.queries = <<>>
            /\ geo.saves = 0
            /\ geo.ret # NoValue
      /\ ~geo.hit =>
            /\ Len(geo.queries) \in 1..2
            /\ Len(geo.answers) = Len(geo.queries)
            /\ geo.queries[1] = [city_name |-> geo.city_name, region |-> "MG, Brasil"]
            /\ Len(geo.queries) = 2 =>
                  /\ geo.queries[2] = [city_name |-> geo.city_name, region |-> "Brasil"]
                  /\ geo.answers[1] = "none"
            /\ Last(geo.answers) = "none" => Len(geo.queries) = 2
            /\ Last(geo.answers) = "location" =>
                  /\ geo.saves = 1
                  /\ geo.ret # NoValue
                  /\ city_hash(geo.city_name) \in DOMAIN coordinates
                  /\ geo.ret = <<coordinates[city_hash(geo.city_name)].longitude,
                                 coordinates[city_hash(geo.city_name)].latitude>>
            /\ Last(geo.answers) # "location" =>
                  /\ geo.saves = 0
                  /\ geo.ret = NoValue

\* C7: geocoding is cache-first and never retried: a cache hit returns with
\* no geocoder call; on a miss the queries "name, MG, Brasil" and then "name,
\* Brasil" are issued, the second only after an empty first answer; the first
\* location found is stored by one save_coordinates and returned; with no
\* location the call returns unresolved after at most 2 geocoder calls and
\* the store is left as it was.
C7_GeocodingCacheFirst ==
    [][ /\ GeoReturned'
        /\ (last'.op = "get_coordinates" /\ last'.found) =>
              /\ geo'.pc = "done"
              /\ geo'.hit
              /\ geo'.ret = last'.value
              /\ CoordSaves' = CoordSaves
        /\ geo.pc \in {"geocode_mg", "geocode_br"} =>
              IF geo'.pc = "done" /\ geo'.ret # NoValue
              THEN /\ CoordSaves' = CoordSaves + 1
                   /\ last'.op = "save_coordinates"
                   /\ last'.a = geo.city_name
                   /\ last'.value = geo'.ret
              ELSE /\ coordinates' = coordinates
                   /\ cache_stats' = cache_stats
      ]_vars

\* A miss whose first query was empty and whose second found the place.
C7_Witness ==
    /\ geo.pc = "done"
    /\ ~geo.hit
    /\ geo.answers = <<"none", "location">>
    /\ geo.saves = 1
    /\ CoordSaves = 1

\* The two names of a pair, normalised, as a set.
NormPair(a, b) == {strip(upper(a)), strip(upper(b))}

\* C8: distance resolution is cache-first by the unordered pair: a call made
\* while an entry of the same two names, in either order, is within its TTL
\* returns that entry with status cache_hit, makes no routing call and no
\* save_distance.
C8_DistanceCacheFirst ==
    [][ /\ \A k \in DOMAIN distances :
              ( /\ last'.op = "get_distance"
                /\ NormPair(last'.a, last'.b) =
                      NormPair(distances[k].origin_city, distances[k].destination_city)
                /\ WithinTtl(distances[k]) )
              => /\ calc'.pc = "done"
                 /\ calc'.hit
                 /\ calc'.result.status = "cache_hit"
                 /\ RoundedTo(calc'.result.value[1], distances[k].distance_km, 10)
                 /\ RoundedTo(calc'.result.value[2], distances[k].duration_minutes, 60)
                 /\ DistanceSaves' = DistanceSaves
                 /\ DOMAIN distances' = DOMAIN distances
        /\ (calc'.pc = "done" /\ calc'.hit) =>
              /\ calc'.calls = 0
              /\ calc'.saves = 0
              /\ calc'.sleeps = <<>>
      ]_vars

\* A call has hit the entry saved with the two names the other way round.
C8_Witness ==
    /\ calc.pc = "done"
    /\ calc.hit
    /\ calc.calls = 0
    /\ \E k \in DOMAIN distances :
          /\ distances[k].hits = 1
          /\ distances[k].origin_city = calc.destination_city
          /\ distances[k].destination_city = calc.origin_city

NonDecreasing(seq) == \A i \in 1..(Len(seq) - 1) : seq[i] <= seq[i + 1]

\* C9: a computation that fails K < max_retries times and then succeeds has
\* made exactly K+1 routing calls, slept K times with non-decreasing delays,
\* saved the distance once and returns the success result; no call returns a
\* failure before max_retries attempts have failed.
C9_RetryBound ==
    calc.pc = "done" /\ ~calc.hit =>
      /\ calc.result.status \in {"sucesso", "erro_calculo"}
      /\ calc.result.status = "erro_calculo" => Len(calc.failures) = max_retries
      /\ calc.result.status = "sucesso" =>
            /\ Len(calc.failures) < max_retries
            /\ calc.calls = Len(calc.failures) + 1
            /\ Len(calc.sleeps) = Len(calc.failures)
            /\ NonDecreasing(calc.sleeps)
            /\ \A i \in 1..Len(calc.sleeps) : calc.sleeps[i] >= 1
            /\ calc.saves = 1
            /\ DistanceSaves >= 1
            /\ _get_route_hash(calc.origin_city, calc.destination_city)
                  \in DOMAIN distances
            /\ LET row == distances[_get_route_hash(calc.origin_city,
                                                    calc.destination_city)]
               IN  /\ <<row.distance_km, row.duration_minutes>> = calc.route
                   /\ RoundedTo(calc.result.value[1], row.distance_km, 10)
                   /\ RoundedTo(calc.result.value[2], row.duration_minutes, 60)

\* Two failed attempts, two sleeps, then a success.
C9_Witness ==
    /\ calc.pc = "done"
    /\ calc.result.status = "sucesso"
    /\ Len(calc.failures) = max_retries - 1
    /\ calc.calls = max_retries
    /\ Len(calc.sleeps) = max_retries - 1

\* The detail of a failed attempt: the exception's text or the status.
FailureDetail(f) ==
    CASE f = "exception" -> "transport error"
      [] f = "bad_status" -> "status other than 200"
      [] f = "no_routes" -> "status 200 without routes"

\* C10: when all max_retries attempts fail, exactly max_retries routing calls
\* were made, nothing was saved, and the result is erro_calculo with no
\* distance and no duration, carrying the detail of the last failure.
C10_RetryExhaustion ==
    (calc.pc = "done" /\ ~calc.hit /\ calc.result.status = "erro_calculo") =>
      /\ calc.calls = max_retries
      /\ Len(calc.failures) = max_retries
      /\ calc.saves = 0
      /\ calc.result.value = NoValue
      /\ calc.result.erro_detalhes.message = FailureDetail(Last(calc.failures))

----------------------------------------------------------------------------
(* Properties of the job and batch processor.                              *)

OkStatus == {"sucesso", "cache_hit"}

\* Entries of a sequence that satisfy a test, counted.
CountIn(seq, Test(_)) == Cardinality({n \in 1..Len(seq) : Test(seq[n])})

\* C11: a job whose origin cannot be geocoded and that has N destinations
\* returns status origem_nao_encontrada, sucessos = 0, erros = N and N
\* entries in erros_detalhados, all of the origin kind, one per destination.
C11_OriginUnresolvedRecords ==
    \A j \in DOMAIN jobs :
      LET r == jobs[j].resultado
          N == Len(jobs[j].linha.destinos)
      IN  (r.status = "origem_nao_encontrada" /\ N > 0) =>
            /\ r.sucessos = 0
            /\ r.erros = N
            /\ Len(r.erros_detalhados) = N
            /\ \A n \in 1..Len(r.erros_detalhados) :
                  r.erros_detalhados[n].tipo = "geocoding_origem"
            /\ \A i \in 1..N :
                  \E n \in 1..Len(r.erros_detalhados) :
                      r.erros_detalhados[n].destino = jobs[j].linha.destinos[i]

\* A job whose origin is not found has made no call for its destinations.
StoppedAtOrigin(f) ==
    f.resultado.status = "origem_nao_encontrada" =>
      /\ f.pc = "returned"
      /\ f.dest_geocodes = 0
      /\ f.lookups = 0
      /\ f.routed = 0
      /\ f.destinos_com_coords = <<>>
      /\ f.resultado.destinos_calculados = <<>>
      /\ \A i \in DOMAIN f.gw : f.gw[i].pc = "lookup"

\* C12: once the origin of a job fails to resolve, the job has returned and
\* no destination geocoding, no distance-cache lookup and no routing call is
\* made for it, then or later.
C12_OriginUnresolvedStops ==
    [][ \A j \in DOMAIN jobs' :
          /\ StoppedAtOrigin(jobs'[j])
          /\ (j \in DOMAIN jobs /\ jobs[j].resultado.status = "origem_nao_encontrada")
                => jobs'[j] = jobs[j]
      ]_vars

\* A job with destinations stopped at its origin and the batch went through.
C12_Witness ==
    /\ batch.pc = "done"
    /\ \E j \in DOMAIN jobs :
          /\ jobs[j].resultado.status = "origem_nao_encontrada"
          /\ Len(jobs[j].linha.destinos) = 3
          /\ jobs[j].dest_geocodes = 0

\* The destinations of a frame whose geocoding gave no coordinates.
Unresolved(f) ==
    {n \in 1..Len(f.destinos_com_coords) : f.destinos_com_coords[n].coords = NoValue}

\* An entry of erros_detalhados for destination destino not being geocoded.
IsDestinoRecord(e, origem, destino) ==
    /\ e.tipo = "geocoding_destino"
    /\ e.origem = origem
    /\ e.destino = destino

\* What a finished job holds when some destinations were not geocoded.
Contained(f) ==
    f.resultado.status = "concluido" =>
      LET r == f.resultado
          U == Unresolved(f)
          IsOk(d) == d.status \in OkStatus
          IsDestErr(e) == e.tipo = "geocoding_destino"
      IN  /\ CountIn(r.erros_detalhados, IsDestErr) = Cardinality(U)
          /\ \A n \in U :
                /\ Cardinality({m \in 1..Len(r.erros_detalhados) :
                        IsDestinoRecord(r.erros_detalhados[m], f.linha.origem,
                                        f.destinos_com_coords[n].destino)}) = 1
                /\ \E m \in 1..Len(r.destinos_calculados) :
                      /\ r.destinos_calculados[m].idx = f.destinos_com_coords[n].idx
                      /\ r.destinos_calculados[m].status = "coordenadas_nao_encontradas"
                      /\ r.destinos_calculados[m].value = NoValue
          /\ f.lookups = Len(f.destinos_com_coords) - Cardinality(U)
          /\ f.routed <= f.lookups
          /\ r.sucessos = CountIn(r.destinos_calculados, IsOk)
          /\ r.erros = Len(r.destinos_calculados) - r.sucessos
          /\ r.erros >= Cardinality(U)

\* C13: in a job with a resolved origin, a destination whose geocoding fails
\* gives exactly one geocoding_destino entry, makes no distance-cache lookup
\* and no routing call, and leaves the results of the other destinations as
\* they are.
C13_DestinationFailuresContained ==
    [][ \A j \in DOMAIN jobs' :
          /\ Contained(jobs'[j])
          /\ \A k \in DOMAIN jobs'[j].cw :
                ( /\ j \in DOMAIN jobs
                  /\ jobs[j].pc = "calculating"
                  /\ jobs[j].destinos_com_coords[k].coords = NoValue
                  /\ jobs[j].cw[k].pc = "start"
                  /\ jobs'[j].cw[k].pc = "done" )
                => LET r == jobs[j].resultado
                       q == jobs'[j].resultado
                   IN  /\ coordinates' = coordinates
                       /\ distances' = distances
                       /\ cache_stats' = cache_stats
                       /\ jobs'[j].lookups = jobs[j].lookups
                       /\ jobs'[j].routed = jobs[j].routed
                       /\ q.erros = r.erros + 1
                       /\ q.sucessos = r.sucessos
                       /\ Len(q.erros_detalhados) = Len(r.erros_detalhados) + 1
                       /\ SubSeq(q.erros_detalhados, 1, Len(r.erros_detalhados))
                            = r.erros_detalhados
                       /\ IsDestinoRecord(q.erros_detalhados[Len(q.erros_detalhados)],
                                          jobs[j].linha.origem,
                                          jobs[j].destinos_com_coords[k].destino)
                       /\ SubSeq(q.destinos_calculados, 1, Len(r.destinos_calculados))
                            = r.destinos_calculados
      ]_vars

\* The result of destination name in a resultado, if it is there.
ResultOf(r, name) ==
    {r.destinos_calculados[m] : m \in {m \in 1..Len(r.destinos_calculados) :
                                          r.destinos_calculados[m].destino = name}}

\* Destinations [JF: 12.35 km, SP: not geocoded, RJ: 250.5 km] gave 2
\* successes, 1 error and JF as the nearest.
C13_Witness ==
    \E j \in DOMAIN jobs :
      LET r == jobs[j].resultado
      IN  /\ r.status = "concluido"
          /\ jobs[j].linha.destinos = <<JF, SP, RJ>>
          /\ \E a \in ResultOf(r, JF) : a.value = <<12350, 960>>
          /\ \E b \in ResultOf(r, SP) : b.status = "coordenadas_nao_encontradas"
          /\ \E c \in ResultOf(r, RJ) : c.value = <<250500, 10800>>
          /\ r.sucessos = 2
          /\ r.erros = 1
          /\ r.destino_mais_proximo = JF

\* The results of a resultado that hold a distance.
Successful(r) ==
    {m \in 1..Len(r.destinos_calculados) : r.destinos_calculados[m].status \in OkStatus}

\* C14: for every finished job with at least one successful destination,
\* km_mais_proximo is the least distancia_km over the successful
\* destinations, fresh or from the cache, and destino_mais_proximo is a
\* destination with that distance; with no success both stay empty.
C14_NearestSelection ==
    \A j \in DOMAIN jobs :
      LET r == jobs[j].resultado
          S == Successful(r)
      IN  r.status = "concluido" =>
            IF S = {}
            THEN /\ r.destino_mais_proximo = NoValue
                 /\ r.km_mais_proximo = NoValue
            ELSE /\ Len(r.km_mais_proximo) = 1
                 /\ \A m \in S : r.km_mais_proximo[1] <= r.destinos_calculados[m].value[1]
                 /\ \E m \in S :
                       /\ r.destinos_calculados[m].destino = r.destino_mais_proximo
                       /\ r.destinos_calculados[m].value[1] = r.km_mais_proximo[1]

\* Three successes with different distances, the nearest neither the first
\* destination of the line nor the first to finish.
C14_Witness ==
    \E j \in DOMAIN jobs :
      LET r == jobs[j].resultado
      IN  /\ r.status = "concluido"
          /\ r.sucessos = 3
          /\ r.km_mais_proximo = <<12350>>
          /\ r.destino_mais_proximo = SP
          /\ r.destinos_calculados[1].value[1] = 250500
          /\ r.destinos_calculados[1].destino = RJ

\* C15: when several successful destinations share the least distance,
\* destino_mais_proximo is the one that comes first in the destinos of the
\* line, whatever the order in which the workers finish.
C15_NearestTieBreak ==
    \A j \in DOMAIN jobs :
      LET r == jobs[j].resultado
          S == Successful(r)
          least == {m \in S : \A n \in S : r.destinos_calculados[m].value[1]
                                             <= r.destinos_calculados[n].value[1]}
          first == CHOOSE m \in least :
                      \A n \in least : r.destinos_calculados[m].idx
                                         <= r.destinos_calculados[n].idx
      IN  (r.status = "concluido" /\ S # {}) =>
            r.destino_mais_proximo = jobs[j].linha.destinos[r.destinos_calculados[first].idx]

\* C16: whatever the order in which the jobs finish,
\* process_all_lines_parallel returns the results sorted ascending by
\* linha_excel.
C16_BatchSorted ==
    batch.pc = "done" =>
      \A m, n \in 1..Len(batch.resultados) :
          m < n => batch.resultados[m].linha_excel <= batch.resultados[n].linha_excel

\* A batch returned whose later line finished first.
C16_Witness ==
    /\ batch.pc = "done"
    /\ Len(batch.resultados) = 2
    /\ batch.concluidas = <<3, 2>>

\* C17: no exception leaves process_all_lines_parallel, for any batch, the
\* empty one included: neither the batch nor any job ends by raising.
C17_NoExceptionEscapes ==
    /\ batch.pc # "raised"
    /\ \A j \in DOMAIN jobs : jobs[j].pc # "raised"

\* C18: process_all_lines_parallel returns exactly one result per line of
\* the batch, the same line numbers, none lost and none twice, and every
\* finished job holds exactly one result per entry of its destinos.
C18_CompleteResultSet ==
    batch.pc = "done" =>
      /\ Len(batch.resultados) = Len(linhas)
      /\ \A j \in 1..Len(linhas) :
            Cardinality({m \in 1..Len(batch.resultados) :
                            batch.resultados[m].linha_excel = linhas[j].linha_excel}) = 1
      /\ \A m \in 1..Len(batch.resultados) :
            LET r == batch.resultados[m]
            IN  \E j \in 1..Len(linhas) :
                  /\ linhas[j].linha_excel = r.linha_excel
                  /\ r.origem = linhas[j].origem
                  /\ r.status \in {"concluido", "origem_nao_encontrada"}
                  /\ r.status = "concluido" =>
                        /\ Len(r.destinos_calculados) = Len(linhas[j].destinos)
                        /\ \A i \in 1..Len(linhas[j].destinos) :
                              Cardinality({n \in 1..Len(r.destinos_calculados) :
                                  /\ r.destinos_calculados[n].idx = i
                                  /\ r.destinos_calculados[n].destino
                                       = linhas[j].destinos[i]}) = 1

\* A batch of two lines returned, both finished, one with two destinations.
C18_Witness ==
    /\ batch.pc = "done"
    /\ Len(linhas) = 2
    /\ \A m \in 1..Len(batch.resultados) : batch.resultados[m].status = "concluido"
    /\ \E m \in 1..Len(batch.resultados) : Len(batch.resultados[m].destinos_calculados) = 2

\* The jobs of the batch by ascending line number.
ByLinha ==
    CHOOSE f \in [1..Len(jobs) -> 1..Len(jobs)] :
        /\ \A a, b \in 1..Len(jobs) : a # b => f[a] # f[b]
        /\ \A a, b \in 1..Len(jobs) :
              a < b => jobs[f[a]].linha.linha_excel <= jobs[f[b]].linha.linha_excel

\* The error lists of the jobs from position n on, by ascending line number.
RECURSIVE ErrosFrom(_)
ErrosFrom(n) ==
    IF n > Len(jobs) THEN <<>>
    ELSE jobs[ByLinha[n]].resultado.erros_detalhados \o ErrosFrom(n + 1)

RECURSIVE TotalFrom(_, _)
TotalFrom(n, field) ==
    IF n > Len(jobs) THEN 0
    ELSE jobs[n].resultado[field] + TotalFrom(n + 1, field)

\* C19: the error list of the batch is the error lists of the jobs joined
\* in ascending order of line number, and total_sucessos and total_erros are
\* the sums of the jobs' sucessos and erros.
C19_BatchAggregation ==
    batch.pc = "done" =>
      /\ batch.todos_erros = ErrosFrom(1)
      /\ batch.total_sucessos = TotalFrom(1, "sucessos")
      /\ batch.total_erros = TotalFrom(1, "erros")

\* Two lines with one error each, the later line finished first, and some
\* success.
C19_Witness ==
    /\ batch.pc = "done"
    /\ batch.concluidas = <<3, 2>>
    /\ Len(batch.todos_erros) = 2
    /\ batch.todos_erros[1].origem = BH
    /\ batch.todos_erros[2].origem = JF
    /\ batch.total_erros = 2
    /\ batch.total_sucessos = 1

----------------------------------------------------------------------------
(* Properties of get_coordinates among concurrent writers.                 *)

\* C20: when a Get has read an entry that was expired and a Put on the same
\* key is made before the Get goes on, the Get's delete does not remove the
\* entry the Put wrote: once the Get is done, that entry is stored.
C20_PerKeyAtomicity ==
    [][ LET key == city_hash(race.city_name)
        IN  ( /\ race.pc = "selected"
              /\ race'.pc = "done"
              /\ race.found
              /\ IsExpired(race.row, race.at)
              /\ key \in DOMAIN coordinates
              /\ coordinates[key] # race.row
              /\ ~IsExpired(coordinates[key], now) )
            => /\ key \in DOMAIN coordinates'
               /\ coordinates'[key] = coordinates[key]
      ]_vars

----------------------------------------------------------------------------
(* Properties of cleanup_expired, clear_cache and get_cache_stats.         *)

\* The entries of a table that are past or at their expires_at at time t.
DueAt(table, t) == {k \in DOMAIN table : fromisoformat(table[k].expires_at) <= t}

\* C23: cleanup_expired deletes every entry of both kinds with
\* expires_at <= now and no other entry, returns the number of entries it
\* removed, and a second call right after it removes nothing and returns 0.
C23_CleanupRemovesExpired ==
    [][ last'.op = "cleanup_expired" =>
          /\ DOMAIN coordinates' = DOMAIN coordinates \ DueAt(coordinates, now)
          /\ DOMAIN distances' = DOMAIN distances \ DueAt(distances, now)
          /\ last'.removed = Cardinality(DOMAIN coordinates \ DOMAIN coordinates')
                             + Cardinality(DOMAIN distances \ DOMAIN distances')
          /\ last.op = "cleanup_expired" => last'.removed = 0
      ]_vars

\* C24: clear_cache leaves no coordinate entry, no distance entry and no
\* counter; on an empty store every Get is a miss and leaves the store
\* empty, and get_cache_stats called before any other operation reports 0
\* hits, 0 misses, 0 saves and total_entries = 0.
C24_ClearResets ==
    [][ /\ last'.op = "clear_cache" =>
              /\ DOMAIN coordinates' = {}
              /\ DOMAIN distances' = {}
              /\ DOMAIN cache_stats' = {}
        /\ (last'.op = "get_coordinates" /\ DOMAIN coordinates = {}) =>
              /\ ~last'.found
              /\ last'.status = "miss"
              /\ DOMAIN coordinates' = {}
        /\ (last'.op = "get_distance" /\ DOMAIN distances = {}) =>
              /\ ~last'.found
              /\ last'.status = "miss"
              /\ DOMAIN distances' = {}
        /\ (last.op = "clear_cache" /\ last'.op = "get_cache_stats") =>
              /\ \A f \in StatFields : last'.counters[f] = 0
              /\ last'.total_entries = 0
      ]_vars

\* clear_cache has just run, after time has passed, and left nothing.
C24_Witness ==
    /\ last.op = "clear_cache"
    /\ now > 0
    /\ DOMAIN cache_stats = {}
    /\ DOMAIN coordinates = {}
    /\ DOMAIN distances = {}

\* rate, in hundredths of a percent, is hits/requests*100 to two decimals,
\* and 0 when there were no requests.
IsRate(rate, hits, requests) ==
    IF requests = 0 THEN rate = 0
    ELSE /\ 2 * (rate * requests - hits * 10000) <= requests
         /\ 2 * (hits * 10000 - rate * requests) <= requests

\* The entries of a table that are live at time t.
LiveAt(table, t) == {k \in DOMAIN table : t <= fromisoformat(table[k].expires_at)}

\* C28: get_cache_stats reports, per kind, hit_rate = hits/(hits+misses)*100
\* (to two decimals) and 0 without requests, an overall hit rate from the
\* summed hits and requests of both kinds, total_requests = the hits and
\* misses of both kinds, and total_entries = the live coordinate entries
\* plus the live distance entries.
C28_StatsDerivation ==
    [][ last'.op = "get_cache_stats" =>
          LET c == last'.counters
              v == last'.value
          IN  /\ IsRate(v[1], c.coord_hits, c.coord_hits + c.coord_misses)
              /\ IsRate(v[2], c.distance_hits, c.distance_hits + c.distance_misses)
              /\ v[3] = c.coord_hits + c.distance_hits
              /\ v[4] = c.coord_hits + c.coord_misses
                        + c.distance_hits + c.distance_misses
              /\ IsRate(v[5], v[3], v[4])
              /\ last'.total_entries = Cardinality(LiveAt(coordinates, now))
                                       + Cardinality(LiveAt(distances, now))
      ]_vars

----------------------------------------------------------------------------
(* Properties of the retry loop's sleeps.                                  *)

\* C29: the sleep after failed attempt i (0-based) lasts 2^i seconds, whether
\* the attempt failed by a bad response or by an exception; it is made for
\* i < max_retries - 1 only, so max_retries failed attempts make exactly
\* max_retries - 1 sleeps.
C29_BackoffSchedule ==
    LET failed == Len(calc.failures)
        slept == Len(calc.sleeps)
    IN  /\ \A i \in 1..slept : calc.sleeps[i] = Pow2(i - 1)
        /\ slept <= max_retries - 1
        /\ calc.pc = "backoff" => slept = failed - 1 /\ failed <= max_retries - 1
        /\ calc.pc \in {"request", "done"} =>
              slept = IF failed < max_retries THEN failed ELSE max_retries - 1
        /\ (calc.pc = "done" /\ ~calc.hit /\ calc.result.status = "erro_calculo") =>
              /\ failed = max_retries
              /\ calc.sleeps = [i \in 1..(max_retries - 1) |-> Pow2(i - 1)]

\* Every attempt failed, one by an exception and one by a bad response, and
\* the call slept 1 s and 2 s.
C29_Witness ==
    /\ calc.pc = "done"
    /\ calc.result.status = "erro_calculo"
    /\ calc.failures[1] = "exception"
    /\ calc.failures[2] = "bad_status"
    /\ calc.sleeps = <<1, 2>>

----------------------------------------------------------------------------
(* Properties of the course of one job.                                    *)

\* The state of a job, read off the frame of process_linha_paralela.  A call
\* that raised while building the pool of the distance workers has left
\* the job where it was, among its destinations.
JobState(f) ==
    CASE f.pc = "submitted" -> "Pending"
      [] f.pc = "origin_geocode" -> "ResolvingOrigin"
      [] f.pc \in {"geocoding", "raised"} -> "ResolvingDestinations"
      [] f.pc = "calculating" -> "ComputingDistances"
      [] f.pc = "returned" /\ f.resultado.status = "origem_nao_encontrada" ->
            "OriginUnresolved"
      [] f.pc = "returned" /\ f.resultado.status = "concluido" -> "Completed"
      [] OTHER -> "Unknown"

\* The moves of a job.  An origin found in the cache is resolved within the
\* step that looks it up, so that step passes through ResolvingOrigin.
JobMoves ==
    {<<"Pending", "ResolvingOrigin">>,
     <<"Pending", "ResolvingDestinations">>,
     <<"ResolvingOrigin", "OriginUnresolved">>,
     <<"ResolvingOrigin", "ResolvingDestinations">>,
     <<"ResolvingDestinations", "ComputingDistances">>,
     <<"ComputingDistances", "Completed">>}

\* The distance workers of a job have begun.
DistanceWorkBegun(f) ==
    \/ f.lookups > 0
    \/ f.routed > 0
    \/ Len(f.resultado.destinos_calculados) > 0
    \/ \E k \in DOMAIN f.cw : f.cw[k].pc # "start"
    \/ f.pc = "calculating"

\* Every destination of the line has been through geocoding.
DestinationsGeocoded(f) ==
    /\ Len(f.destinos_com_coords) = Len(f.linha.destinos)
    /\ \A i \in 1..Len(f.linha.destinos) :
          \E m \in 1..Len(f.destinos_com_coords) : f.destinos_com_coords[m].idx = i

\* C30: a job moves only along Pending -> ResolvingOrigin ->
\* {OriginUnresolved | ResolvingDestinations} -> ComputingDistances ->
\* Completed; a result is returned with status origem_nao_encontrada or
\* concluido and carries processando until then; no distance work of a job
\* begins before every destination of the job has been geocoded.
C30_JobStateMachine ==
    [][ /\ \A j \in DOMAIN jobs' :
              LET f == jobs'[j]
              IN  /\ JobState(f) # "Unknown"
                  /\ f.pc = "returned" <=>
                        f.resultado.status \in {"origem_nao_encontrada", "concluido"}
                  /\ f.pc # "returned" => f.resultado.status = "processando"
                  /\ DistanceWorkBegun(f) => DestinationsGeocoded(f)
                  /\ JobState(f) \in {"Pending", "ResolvingOrigin", "OriginUnresolved"}
                        => ~DistanceWorkBegun(f) /\ f.dest_geocodes = 0
        /\ DOMAIN jobs = {} => \A j \in DOMAIN jobs' : JobState(jobs'[j]) = "Pending"
        /\ \A j \in DOMAIN jobs :
              \/ JobState(jobs'[j]) = JobState(jobs[j])
              \/ <<JobState(jobs[j]), JobState(jobs'[j])>> \in JobMoves
        /\ \A r \in 1..Len(batch'.resultados) :
              batch'.resultados[r].status \in {"origem_nao_encontrada", "concluido"}
      ]_vars

\* One job of a batch has ended at its origin and another has been through
\* every state and is completed.
C30_Witness ==
    /\ Len(jobs) = 2
    /\ JobState(jobs[1]) = "Completed"
    /\ jobs[1].dest_geocodes = 1
    /\ jobs[1].routed = 1
    /\ JobState(jobs[2]) = "OriginUnresolved"

----------------------------------------------------------------------------
(* Properties of save_coordinates on any input.                            *)

\* Exactly two finite numbers.
ValidCoords(c) == Len(c) = 2 /\ \A i \in 1..Len(c) : c[i] # Inf

\* C25: save_coordinates with coordinates that are not exactly two finite
\* numbers reports an error and leaves the entries and the save counter as
\* they were; a valid call stores the entry under the name's key and adds
\* exactly 1 to the save counter.
C25_PutValidation ==
    [][ last'.op = "save_coordinates" =>
          IF ValidCoords(last'.value)
          THEN /\ last'.status = "saved"
               /\ city_hash(last'.a) \in DOMAIN coordinates'
               /\ coordinates'[city_hash(last'.a)].longitude = last'.value[1]
               /\ coordinates'[city_hash(last'.a)].latitude = last'.value[2]
               /\ SumRows(cache_stats', "coord_saves")
                     = SumRows(cache_stats, "coord_saves") + 1
          ELSE /\ last'.status # "saved"
               /\ coordinates' = coordinates
               /\ cache_stats' = cache_stats
      ]_vars

----------------------------------------------------------------------------
(* Properties of the resolvers over a failing store.                       *)

\* C26: a store access that fails during a cache call of a resolver does
\* not leave the resolver as an exception, and a save_distance that fails
\* after a routing response with a route ends the call at once, with that
\* route as a success and no further routing call.
C26_CacheFailuresAreMisses ==
    /\ calc.pc # "raised"
    /\ \A i \in 1..Len(calc.failures) :
          calc.failures[i] = "save_raised" =>
             /\ calc.pc = "done"
             /\ calc.result.status = "sucesso"
             /\ calc.calls = i

----------------------------------------------------------------------------
(* Properties of the jobs built from a sheet.                              *)

\* C27: in every job built by analyze_spreadsheet_advanced no destination
\* is the origin, nor does a destination differ from the origin only by
\* case or by surrounding blanks, so no pair the processor looks up or
\* routes for that job is a pair (X, X); every job has a destination.
C27_SelfPairExclusion ==
    \A n \in 1..Len(analyzer.linhas_processaveis) :
       LET linha == analyzer.linhas_processaveis[n]
       IN  /\ Len(linha.destinos) >= 1
           /\ linha.origem # NoValue
           /\ \A m \in 1..Len(linha.destinos) :
                 /\ linha.destinos[m] # NoValue
                 /\ linha.destinos[m] # linha.origem
                 /\ strip(upper(linha.destinos[m])) # strip(upper(linha.origem))

\* A row with the origin BH, the origin again in lower case and untrimmed,
\* and JF: the job keeps JF alone and one destination is counted as ignored.
C27_Witness ==
    /\ analyzer.pc = "done"
    /\ Len(analyzer.df) = 1
    /\ analyzer.df[1].origem = BH
    /\ analyzer.df[1].destinos[1] = bh_sp
    /\ analyzer.df[1].destinos[2] = JF
    /\ Len(analyzer.linhas_processaveis) = 1
    /\ analyzer.linhas_processaveis[1].destinos = <<JF>>
    /\ analyzer.destinos_ignorados = 1

----------------------------------------------------------------------------
(* Properties of the cache among several threads.                          *)

\* The values handed to save_coordinates so far, by any thread.
SavedValues == UNION {threads[t].saved : t \in Threads}

\* C21: whatever the threads' Puts and Gets and their order, table
\* coordinates holds at most one row for a key, every row carries the
\* longitude and latitude of one Put, and so does every value a Get
\* returns.
C21_OneRowPerKey ==
    /\ \A i, k \in 1..Len(coordinates_rows) :
          coordinates_rows[i].city_hash = coordinates_rows[k].city_hash => i = k
    /\ \A i \in 1..Len(coordinates_rows) :
          <<coordinates_rows[i].longitude, coordinates_rows[i].latitude>> \in SavedValues
    /\ \A t \in Threads :
          /\ threads[t].found =>
                <<threads[t].row.longitude, threads[t].row.latitude>> \in SavedValues
          /\ threads[t].ret # NoValue => threads[t].ret \in SavedValues

\* Two threads have saved different coordinates under one name, one row is
\* stored for it, and a Get has returned one of the two values.
C21_Witness ==
    /\ threads[1].saved = {<<-44, -20>>}
    /\ threads[2].saved = {<<-43, -22>>}
    /\ Len(coordinates_rows) = 1
    /\ coordinates_rows[1].city_hash = city_hash(BH)
    /\ \E t \in Threads : threads[t].ret = <<-43, -22>>

\* C22: under every interleaving of the threads' Gets and Puts, the first
\* counter update of a day included, no call raises, and once no call is
\* under way the hit, miss and save counters are the numbers of hits, misses
\* and saves made.
C22_ConcurrentCounters ==
    /\ \A t \in Threads : threads[t].pc # "raised"
    /\ (\A t \in Threads : threads[t].pc = "idle") =>
          /\ SumRows(cache_stats, "coord_hits") = SumThreads(Threads, "hits")
          /\ SumRows(cache_stats, "coord_misses") = SumThreads(Threads, "misses")
          /\ SumRows(cache_stats, "coord_saves") = SumThreads(Threads, "saves")

----------------------------------------------------------------------------
\* C33: get_cache_stats is a pure read: the step that returns a report
\* leaves every entry (value, hits, expires_at), every counter and the
\* clock as they were, and a report that follows a report with no other
\* call between them is the same report.
C33_StatsPureRead ==
    [][last'.op = "get_cache_stats" =>
          /\ coordinates' = coordinates
          /\ distances' = distances
          /\ cache_stats' = cache_stats
          /\ get_calls' = get_calls
          /\ now' = now
          /\ (last.op = "get_cache_stats" => last' = last)]_vars

\* A report taken of a store that holds an expired entry with a hit and a
\* day of counters.
C33_Witness ==
    /\ last.op = "get_cache_stats"
    /\ cache_stats # <<>>
    /\ \E k \in DOMAIN coordinates :
           coordinates[k].hits > 0 /\ IsExpired(coordinates[k], now)

----------------------------------------------------------------------------
\* C34: after any sequence of saves no two stored entries have the same
\* canonical key (the upper-cased, trimmed place name; for a route the
\* unordered pair of them), and a save leaves the entry of its key with the
\* value just given and expires_at = now + the TTL of its kind.
C34_UpsertInPlace ==
    /\ \A k1, k2 \in DOMAIN coordinates :
           strip(upper(coordinates[k1].city_name))
               = strip(upper(coordinates[k2].city_name)) => k1 = k2
    /\ \A k1, k2 \in DOMAIN distances :
           {strip(upper(distances[k1].origin_city)),
            strip(upper(distances[k1].destination_city))}
               = {strip(upper(distances[k2].origin_city)),
                  strip(upper(distances[k2].destination_city))} => k1 = k2
    /\ (last.op = "save_coordinates" /\ last.status = "saved") =>
           \E k \in DOMAIN coordinates :
               /\ coordinates[k].city_name = last.a
               /\ coordinates[k].longitude = last.value[1]
               /\ coordinates[k].latitude = last.value[2]
               /\ fromisoformat(coordinates[k].expires_at) = now + TtlTicks
    /\ last.op = "save_distance" =>
           \E k \in DOMAIN distances :
               /\ distances[k].origin_city = last.a
               /\ distances[k].destination_city = last.b
               /\ distances[k].distance_km = last.value[1]
               /\ distances[k].duration_minutes = last.value[2]
               /\ fromisoformat(distances[k].expires_at) = now + DistanceTtlTicks

----------------------------------------------------------------------------
\* C35: in the result of every returned job sucessos + erros is the number
\* of the job's destinations, sucessos is the number of entries of
\* destinos_calculados that carry a distance, and erros is the number of
\* entries of erros_detalhados.
C35_JobTally ==
    \A j \in DOMAIN jobs :
      LET r == jobs[j].resultado
      IN  jobs[j].pc = "returned" =>
            /\ r.sucessos + r.erros = Len(jobs[j].linha.destinos)
            /\ r.sucessos = Len(Sucessos(r.destinos_calculados))
            /\ r.erros = Len(r.erros_detalhados)

----------------------------------------------------------------------------
\* C36: a call answered from the distance cache returns the distance and
\* the duration that the fresh computation which populated the entry
\* returned (or that the previous hit on the entry returned); the status
\* is cache_hit where the fresh one was sucesso.
C36_FreshAndCachedAgree ==
    [][(/\ calc.pc = "done"
        /\ calc.result.status \in {"sucesso", "cache_hit"}
        /\ calc'.pc = "done"
        /\ calc'.hit
        /\ calc' # calc
        /\ _get_route_hash(calc'.origin_city, calc'.destination_city)
             = _get_route_hash(calc.origin_city, calc.destination_city))
       => /\ calc'.result.value = calc.result.value
          /\ calc'.result.status = "cache_hit"]_vars

\* A hit on an entry whose fresh value had to be rounded, asked for with
\* the pair the other way round.
C36_Witness ==
    /\ calc.pc = "done"
    /\ calc.hit
    /\ calc.result.status = "cache_hit"
    /\ calc.result.value = <<12350, 960>>
    /\ calc.origin_city = JF
    /\ \E k \in DOMAIN distances :
           /\ distances[k].origin_city = BH
           /\ distances[k].distance_km = 12346
           /\ distances[k].hits = 1

----------------------------------------------------------------------------
\* C37: the hits of a stored, unexpired entry never decrease while the
\* entry stays in the table; a save under the key of such an entry leaves
\* it with the hits it had.
C37_HitsMonotonic ==
    [][\A i \in 1..Len(coordinates_rows) : \A k \in 1..Len(coordinates_rows') :
          (/\ coordinates_rows'[k].city_hash = coordinates_rows[i].city_hash
           /\ ~IsExpired(coordinates_rows[i], now))
          => coordinates_rows'[k].hits >= coordinates_rows[i].hits]_vars

----------------------------------------------------------------------------
\* C39: after any sequence of save_coordinates calls on an SQLiteCache the
\* number of stored coordinate entries is at most max_entries.
C39_CapacityBound ==
    Cardinality(DOMAIN sqlite_cache.coordinates) <= max_entries

----------------------------------------------------------------------------
\* C32: whatever a thread of the distance pool is given, every routing
\* request it sends that is followed by anything is followed by a sleep
\* (the backoff between two attempts, or the 0.1 s before the thread
\* returns from the item): no two requests are sent back to back.
C32_PolitenessDelay ==
    \A i \in 1..(Len(worker.events) - 1) :
        worker.events[i].kind = "request" =>
            /\ worker.events[i + 1].kind = "sleep"
            /\ worker.events[i + 1].tenths > 0

\* The thread has failed three times on its first item, sleeping 1 s and
\* 2 s in between and 0.1 s after, and got a route for its second item at once.
C32_Witness ==
    /\ worker.tasks = <<>>
    /\ worker.events = <<Request, Sleep(10), Request, Sleep(20), Request, Sleep(1),
                         Request, Sleep(1)>>

----------------------------------------------------------------------------
\* C31: at any moment at most max_workers jobs are being run, and within a
\* job at most max_workers destinations are being geocoded and at most
\* max_workers distances are being calculated, so that the threads at work
\* are at most max_workers * (1 + max_workers) whatever the size of the
\* batch and the number of destinations.
C31_BoundedPools ==
    pool.max_workers > 0 =>
      /\ Cardinality(RunningJobs) <= pool.max_workers
      /\ \A j \in DOMAIN jobs :
            /\ Cardinality(Geocoding(j)) <= pool.max_workers
            /\ Cardinality(Routing(j)) <= pool.max_workers
      /\ Cardinality(RunningJobs)
           + Cardinality(UNION {{<<j, i>> : i \in Geocoding(j)} : j \in DOMAIN jobs})
           + Cardinality(UNION {{<<j, k>> : k \in Routing(j)} : j \in DOMAIN jobs})
           <= pool.max_workers * (1 + pool.max_workers)

\* One thread for the batch and two jobs: the first is at its destinations,
\* one of the two being geocoded and the other waiting, while the second
\* job has not been taken.
C31_Witness ==
    /\ pool.max_workers = 1
    /\ Len(jobs) = 2
    /\ jobs[1].pc = "submitted"
    /\ jobs[2].pc = "geocoding"
    /\ jobs[2].gw[1].pc = "geocode"
    /\ jobs[2].gw[2].pc = "lookup"

----------------------------------------------------------------------------
\* C38: a call of process_all_lines_parallel on any batch comes to its end
\* once every geocoder and routing call comes back; on the way the geocoder
\* is called at most twice for a job's origin and at most twice for a
\* destination, and the routing service at most max_retries times for a
\* destination.
C38_Termination ==
    <>(/\ batch.pc \in {"done", "raised"}
       /\ pool.peak.origin <= 2
       /\ pool.peak.geocoder <= 2
       /\ pool.peak.routing <= max_retries)

\* The batch is done after an origin and a destination took two geocoder
\* calls each and a destination max_retries routing requests.
C38_Witness ==
    /\ batch.pc = "done"
    /\ pool.peak = [origin |-> 2, geocoder |-> 2, routing |-> max_retries]

=============================================================================
